---- MODULE Spec2Model ----
(***************************************************************************)
(* The clinical trial scheduler.  The process-soe route: one request       *)
(* handled by `action` (src/unnamed/part_001), stage by stage: upload,     *)
(* page detection, page reduction, table extraction, normalization and     *)
(* the derived outputs (csv, csv_display, visits).  The calendar routes:   *)
(* the free/busy action (src/unnamed/part_002) with its slot loop, and the *)
(* loader of the OAuth callback (src/app/routes/auth.google.callback.tsx). *)
(*                                                                         *)
(* JavaScript values are tagged records; a string is a sequence of its     *)
(* characters.  The text returned by the inference service is a sequence   *)
(* of symbols: single characters, and composite symbols that each stand    *)
(* for one fixed well-formed JSON fragment (a member of an object, or a    *)
(* whole value).  Diagnostic messages are never scanned by the code and    *)
(* are kept whole.  A Date is an instant read in the time zone of the      *)
(* host.                                                                   *)
(***************************************************************************)
EXTENDS Integers, Sequences, FiniteSets, TLC

\* ------------------------------------------------------------------------
\* Bounds of the model
\* ------------------------------------------------------------------------

\* Longest table (number of elements of the JSON array) the normalization
\* call may return.
MaxRows == 2

\* ------------------------------------------------------------------------
\* JavaScript values
\* ------------------------------------------------------------------------

Undef == [t |-> "undefined"]
Null == [t |-> "null"]
Str(s) == [t |-> "string", v |-> s]
Num(n) == [t |-> "number", v |-> n]
Arr(a) == [t |-> "array", v |-> a]
Obj(f) == [t |-> "object", v |-> f]

\* The diagnostic text `${err}` of a thrown error, kept whole.
Msg(m) == [t |-> "message", v |-> m]

\* a ?? b
Coalesce(a, b) == IF a.t \in {"undefined", "null"} THEN b ELSE a

\* !!v
Truthy(v) ==
  CASE v.t \in {"undefined", "null"} -> FALSE
    [] v.t = "string" -> Len(v.v) > 0
    [] v.t = "number" -> v.v # 0
    [] OTHER -> TRUE

\* o[k] for a value o that is neither null nor undefined
Get(o, k) ==
  IF o.t = "object" /\ k \in DOMAIN o.v THEN o.v[k] ELSE Undef

\* ------------------------------------------------------------------------
\* Strings
\* ------------------------------------------------------------------------

WhiteSpace == {" ", "\t", "\n"}

RECURSIVE TrimStart(_)
TrimStart(s) ==
  IF Len(s) > 0 /\ Head(s) \in WhiteSpace THEN TrimStart(Tail(s)) ELSE s

RECURSIVE TrimEnd(_)
TrimEnd(s) ==
  IF Len(s) > 0 /\ s[Len(s)] \in WhiteSpace
  THEN TrimEnd(SubSeq(s, 1, Len(s) - 1))
  ELSE s

\* String.prototype.trim
Trim(s) == TrimEnd(TrimStart(s))

Digit(d) == <<"0", "1", "2", "3", "4", "5", "6", "7", "8", "9">>[d + 1]

RECURSIVE Digits(_)
Digits(n) == IF n < 10 THEN <<Digit(n)>> ELSE Digits(n \div 10) \o <<Digit(n % 10)>>

RECURSIVE JoinWith(_, _)
\* Array.prototype.join of an array of strings
JoinWith(parts, sep) ==
  IF Len(parts) = 0 THEN <<>>
  ELSE IF Len(parts) = 1 THEN parts[1]
  ELSE parts[1] \o sep \o JoinWith(Tail(parts), sep)

RECURSIVE ToStr(_)
\* String(v)
ToStr(v) ==
  CASE v.t = "string" -> v.v
    [] v.t = "number" -> Digits(v.v)
    [] v.t = "null" -> <<"n", "u", "l", "l">>
    [] v.t = "undefined" -> <<"u", "n", "d", "e", "f", "i", "n", "e", "d">>
    [] v.t = "array" ->
         JoinWith([i \in 1..Len(v.v) |->
                     IF v.v[i].t \in {"undefined", "null"} THEN <<>> ELSE ToStr(v.v[i])],
                  <<",">>)
    [] OTHER -> <<"[", "o", "b", "j", "e", "c", "t", " ", "O", "b", "j", "e", "c", "t", "]">>

\* ------------------------------------------------------------------------
\* The fixed schema
\* ------------------------------------------------------------------------

SOE_HEADERS ==
  << "row_label",
     "protocol_section",
     "screening",
     "treatment_period_cycle_1_day_1",
     "treatment_period_cycle_2_day_1",
     "treatment_period_cycle_1_day_8",
     "treatment_period_cycle_2_day_8",
     "treatment_period_cycle_1_day_15",
     "treatment_period_cycle_2_day_15",
     "c3_and_beyond",
     "eot",
     "follow_up_every_12_weeks_up_to_3_years_from_eot" >>

SoeKeys == {SOE_HEADERS[i] : i \in 1..Len(SOE_HEADERS)}

\* The characters of a key name or of a literal of the renderers.
Chars(k) ==
  CASE k = "row_label" ->
         <<"r", "o", "w", "_", "l", "a", "b", "e", "l">>
    [] k = "protocol_section" ->
         <<"p", "r", "o", "t", "o", "c", "o", "l", "_", "s", "e", "c", "t", "i", "o", "n">>
    [] k = "screening" ->
         <<"s", "c", "r", "e", "e", "n", "i", "n", "g">>
    [] k = "treatment_period_cycle_1_day_1" ->
         <<"t", "r", "e", "a", "t", "m", "e", "n", "t", "_", "p", "e", "r", "i", "o", "d", "_", "c", "y", "c", "l", "e", "_", "1", "_", "d", "a", "y", "_", "1">>
    [] k = "treatment_period_cycle_2_day_1" ->
         <<"t", "r", "e", "a", "t", "m", "e", "n", "t", "_", "p", "e", "r", "i", "o", "d", "_", "c", "y", "c", "l", "e", "_", "2", "_", "d", "a", "y", "_", "1">>
    [] k = "treatment_period_cycle_1_day_8" ->
         <<"t", "r", "e", "a", "t", "m", "e", "n", "t", "_", "p", "e", "r", "i", "o", "d", "_", "c", "y", "c", "l", "e", "_", "1", "_", "d", "a", "y", "_", "8">>
    [] k = "treatment_period_cycle_2_day_8" ->
         <<"t", "r", "e", "a", "t", "m", "e", "n", "t", "_", "p", "e", "r", "i", "o", "d", "_", "c", "y", "c", "l", "e", "_", "2", "_", "d", "a", "y", "_", "8">>
    [] k = "treatment_period_cycle_1_day_15" ->
         <<"t", "r", "e", "a", "t", "m", "e", "n", "t", "_", "p", "e", "r", "i", "o", "d", "_", "c", "y", "c", "l", "e", "_", "1", "_", "d", "a", "y", "_", "1", "5">>
    [] k = "treatment_period_cycle_2_day_15" ->
         <<"t", "r", "e", "a", "t", "m", "e", "n", "t", "_", "p", "e", "r", "i", "o", "d", "_", "c", "y", "c", "l", "e", "_", "2", "_", "d", "a", "y", "_", "1", "5">>
    [] k = "c3_and_beyond" ->
         <<"c", "3", "_", "a", "n", "d", "_", "b", "e", "y", "o", "n", "d">>
    [] k = "eot" ->
         <<"e", "o", "t">>
    [] k = "follow_up_every_12_weeks_up_to_3_years_from_eot" ->
         <<"f", "o", "l", "l", "o", "w", "_", "u", "p", "_", "e", "v", "e", "r", "y", "_", "1", "2", "_", "w", "e", "e", "k", "s", "_", "u", "p", "_", "t", "o", "_", "3", "_", "y", "e", "a", "r", "s", "_", "f", "r", "o", "m", "_", "e", "o", "t">>
    [] k = "Trial Task" ->
         <<"T", "r", "i", "a", "l", " ", "T", "a", "s", "k">>
    [] k = "dates" ->
         <<"d", "a", "t", "e", "s">>

\* ------------------------------------------------------------------------
\* Text of the inference service and JSON.parse
\* ------------------------------------------------------------------------

\* Composite symbols standing for one member of a JSON object:
\*   "I" is "pdf_indices":[1,3]    "E" is "pdf_indices":[]
\*   "N" is "pdf_indices":5
MemberSyms == {"I", "E", "N"}

MemberValue(m) ==
  CASE m = "I" -> Arr(<<Num(1), Num(3)>>)
    [] m = "E" -> Arr(<<>>)
    [] OTHER -> Num(5)

BlankRow == [k \in SoeKeys |-> Str(<<>>)]

\* Composite symbols standing for one whole JSON value: the literal null, and
\* object literals ("rA", "rB", "rQ" have the 12 keys with string values;
\* "rJ" lacks keys, has a cell that is not a string and has a key outside
\* the schema).
ValueSyms == {"rA", "rB", "rQ", "rJ", "null"}

ValueOf(sym) ==
  CASE sym = "rA" ->
         Obj([BlankRow EXCEPT !["row_label"] = Str(<<"A">>),
                              !["screening"] = Str(<<"X">>),
                              !["treatment_period_cycle_1_day_1"] = Str(<<" ">>),
                              !["treatment_period_cycle_2_day_1"] = Str(<<"X">>),
                              !["eot"] = Str(<<"X">>)])
    [] sym = "rB" ->
         Obj([BlankRow EXCEPT !["row_label"] = Str(<<"B">>),
                              !["protocol_section"] = Str(<<"8", ".", "1">>),
                              !["treatment_period_cycle_1_day_1"] = Str(<<"X">>),
                              !["treatment_period_cycle_1_day_8"] = Str(<<" ", "X", " ">>),
                              !["treatment_period_cycle_2_day_8"] = Str(<<"X">>),
                              !["c3_and_beyond"] = Str(<<"\t">>),
                              !["eot"] = Str(<<"X">>)])
    [] sym = "rQ" ->
         Obj([BlankRow EXCEPT !["row_label"] = Str(<<"a", ",", "\"", "b">>),
                              !["treatment_period_cycle_2_day_15"] = Str(<<"X">>),
                              !["follow_up_every_12_weeks_up_to_3_years_from_eot"] =
                                  Str(<<"\"", "\n">>)])
    [] sym = "rJ" ->
         Obj([k \in {"row_label", "screening", "eot", "notes"} |->
                CASE k = "row_label" -> Str(<<"J">>)
                  [] k = "screening" -> Num(1)
                  [] k = "eot" -> Null
                  [] OTHER -> Str(<<"n">>)])
    [] OTHER -> Null

NoSpace(text) == SelectSeq(text, LAMBDA c : c \notin WhiteSpace)

\* value ("," value)*
IsElements(inner) ==
  /\ Len(inner) % 2 = 1
  /\ \A i \in 1..Len(inner) :
       IF i % 2 = 1 THEN inner[i] \in ValueSyms ELSE inner[i] = ","

ParseFailed == [ok |-> FALSE, value |-> Undef]

\* JSON.parse(text): [ok |-> TRUE, value |-> v], or ok = FALSE where it
\* throws a SyntaxError.
JsonParse(text) ==
  LET s == NoSpace(text)
      n == Len(s)
  IN  IF n = 1 /\ s[1] \in ValueSyms
        THEN [ok |-> TRUE, value |-> ValueOf(s[1])]
      ELSE IF n >= 2 /\ s[1] = "{" /\ s[n] = "}"
        THEN IF n = 2
               THEN [ok |-> TRUE, value |-> Obj([k \in {} |-> Undef])]
             ELSE IF n = 3 /\ s[2] \in MemberSyms
               THEN [ok |-> TRUE,
                     value |-> Obj([k \in {"pdf_indices"} |-> MemberValue(s[2])])]
             ELSE ParseFailed
      ELSE IF n >= 2 /\ s[1] = "[" /\ s[n] = "]"
        THEN IF n = 2
               THEN [ok |-> TRUE, value |-> Arr(<<>>)]
             ELSE IF IsElements(SubSeq(s, 2, n - 1))
               THEN [ok |-> TRUE,
                     value |-> Arr([i \in 1..((n - 1) \div 2) |-> ValueOf(s[2 * i])])]
             ELSE ParseFailed
      ELSE ParseFailed

\* raw.match(/\{[\s\S]*\}/): the span from the first "{" to the last "}"
\* after it; <<>> stands for no match (a match is never empty).
MatchBraceSpan(raw) ==
  LET opens == {i \in 1..Len(raw) : raw[i] = "{"}
      closes == {j \in 1..Len(raw) : raw[j] = "}"}
  IN  IF opens = {} THEN <<>>
      ELSE LET first == CHOOSE i \in opens : \A k \in opens : i <= k
               after == {j \in closes : j > first}
           IN  IF after = {} THEN <<>>
               ELSE SubSeq(raw, first, CHOOSE j \in after : \A k \in after : k <= j)

\* ------------------------------------------------------------------------
\* Schedule Calculator
\* ------------------------------------------------------------------------

\* Day number (days since 1970-01-01, UTC) of a calendar date.
DaysFromCivil(y, m, d) ==
  LET yy == IF m <= 2 THEN y - 1 ELSE y
      era == yy \div 400
      yoe == yy - era * 400
      mp == IF m > 2 THEN m - 3 ELSE m + 9
      doy == (153 * mp + 2) \div 5 + d - 1
      doe == yoe * 365 + yoe \div 4 - yoe \div 100 + doy
  IN  era * 146097 + doe - 719468

\* Calendar date <<year, month, day>> of a day number.
CivilFromDays(days) ==
  LET z == days + 719468
      era == z \div 146097
      doe == z - era * 146097
      yoe == (doe - doe \div 1460 + doe \div 36524 - doe \div 146096) \div 365
      doy == doe - (365 * yoe + yoe \div 4 - yoe \div 100)
      mp == (5 * doy + 2) \div 153
      d == doy - (153 * mp + 2) \div 5 + 1
      m == IF mp < 10 THEN mp + 3 ELSE mp - 9
      y == yoe + era * 400 + (IF m <= 2 THEN 1 ELSE 0)
  IN  <<y, m, d>>

RECURSIVE PadStart(_, _)
\* String.prototype.padStart(width, "0")
PadStart(s, width) == IF Len(s) >= width THEN s ELSE PadStart(<<"0">> \o s, width)

\* A Date is an instant, counted in hours since 1970-01-01T00:00Z, read in
\* the local time zone of the host.
Date(hours, zone) == [time |-> hours, zone |-> zone]

HoursPerDay == 24

\* First and last instant of daylight saving time 2025 in America/New_York
DstStart == DaysFromCivil(2025, 3, 9) * HoursPerDay + 7

DstEnd == DaysFromCivil(2025, 11, 2) * HoursPerDay + 6

\* Offsets from UTC, in hours, that a zone is ever at
ZoneOffsets(zone) == IF zone = "UTC" THEN {0} ELSE {-5, -4}

\* Offset of local time from UTC at an instant
UtcOffset(zone, t) ==
  IF zone = "UTC" THEN 0
  ELSE IF t >= DstStart /\ t < DstEnd THEN -4 ELSE -5

\* Local wall-clock hours of an instant
LocalTime(zone, t) == t + UtcOffset(zone, t)

\* The instant of a local wall-clock time: the earliest instant that shows
\* it; a wall-clock time skipped by a transition is read at the offset in
\* force before the transition.
UtcOfLocal(zone, wall) ==
  LET shown == {wall - o : o \in ZoneOffsets(zone)}
      cands == {t \in shown : LocalTime(zone, t) = wall}
  IN  IF cands # {} THEN CHOOSE t \in cands : \A u \in cands : t <= u
      ELSE wall - UtcOffset(zone, wall - HoursPerDay)

\* The day offset applied to the instant itself.
addDays_subtracting(base, days) == Date(base.time - days * HoursPerDay, base.zone)

\* d.setDate(d.getDate() + days): the local calendar day moves, the local
\* time of day stays
addDays(base, days) ==
  Date(UtcOfLocal(base.zone, LocalTime(base.zone, base.time) + days * HoursPerDay),
       base.zone)

\* d.toISOString().slice(0, 10)
formatIsoDate(d) ==
  LET c == CivilFromDays(d.time \div HoursPerDay)
  IN  PadStart(Digits(c[1]), 4) \o <<"-">> \o PadStart(Digits(c[2]), 2)
        \o <<"-">> \o PadStart(Digits(c[3]), 2)

computeScheduleDates(today) ==
  LET screening == addDays(today, 1)
      c1d1 == addDays(screening, 7)
      c1d8 == addDays(c1d1, 7)
      c1d15 == addDays(c1d1, 14)
      c2d1 == addDays(c1d15, 30)
      c2d8 == addDays(c2d1, 7)
      c2d15 == addDays(c2d1, 14)
      c3Beyond == addDays(c2d15, 30)
      eot == addDays(c3Beyond, 30)
  IN  [protocol_section |-> <<>>,
       screening |-> formatIsoDate(screening),
       treatment_period_cycle_1_day_1 |-> formatIsoDate(c1d1),
       treatment_period_cycle_2_day_1 |-> formatIsoDate(c2d1),
       treatment_period_cycle_1_day_8 |-> formatIsoDate(c1d8),
       treatment_period_cycle_2_day_8 |-> formatIsoDate(c2d8),
       treatment_period_cycle_1_day_15 |-> formatIsoDate(c1d15),
       treatment_period_cycle_2_day_15 |-> formatIsoDate(c2d15),
       c3_and_beyond |-> formatIsoDate(c3Beyond),
       eot |-> formatIsoDate(eot)]

\* ------------------------------------------------------------------------
\* CSV renderers
\* ------------------------------------------------------------------------

RECURSIVE DoubleQuotes(_)
\* s.replace(/"/g, '""')
DoubleQuotes(s) ==
  IF Len(s) = 0 THEN <<>>
  ELSE (IF Head(s) = "\"" THEN <<"\"", "\"">> ELSE <<Head(s)>>) \o DoubleQuotes(Tail(s))

\* The field as it is, neither wrapped nor doubled.
esc_unquoted(s) == ToStr(Coalesce(s, Str(<<>>)))

\* The field wrapped in quotes, its own quotes left single.
esc_noDoubling(s) == <<"\"">> \o ToStr(Coalesce(s, Str(<<>>))) \o <<"\"">>

\* esc(s) of both renderers, for a JavaScript value s
esc(s) == <<"\"">> \o DoubleQuotes(ToStr(Coalesce(s, Str(<<>>)))) \o <<"\"">>

\* rows.map(r => ... r[h] ...) throws a TypeError when rows is no array or
\* holds a null or undefined element.
MapRowsThrows(rows) ==
  \/ rows.t # "array"
  \/ \E i \in 1..Len(rows.v) : rows.v[i].t \in {"undefined", "null"}

\* rowsToCsv(rows), for rows on which it does not throw
rowsToCsv(rows) ==
  LET headerLine == JoinWith([i \in 1..Len(SOE_HEADERS) |-> Chars(SOE_HEADERS[i])], <<",">>)
      line(r) == JoinWith([i \in 1..Len(SOE_HEADERS) |->
                             esc(Coalesce(Get(r, SOE_HEADERS[i]), Str(<<>>)))], <<",">>)
      lines == [i \in 1..Len(rows.v) |-> line(rows.v[i])]
  IN  JoinWith(<<headerLine>> \o lines, <<"\n">>)

\* The display columns in the order of SOE_HEADERS: cycle days interleaved.
displayHeaders_dayAligned ==
  << "row_label",
     "protocol_section",
     "screening",
     "treatment_period_cycle_1_day_1",
     "treatment_period_cycle_2_day_1",
     "treatment_period_cycle_1_day_8",
     "treatment_period_cycle_2_day_8",
     "treatment_period_cycle_1_day_15",
     "treatment_period_cycle_2_day_15",
     "c3_and_beyond",
     "eot" >>

displayHeaders ==
  << "row_label",
     "protocol_section",
     "screening",
     "treatment_period_cycle_1_day_1",
     "treatment_period_cycle_1_day_8",
     "treatment_period_cycle_1_day_15",
     "treatment_period_cycle_2_day_1",
     "treatment_period_cycle_2_day_8",
     "treatment_period_cycle_2_day_15",
     "c3_and_beyond",
     "eot" >>

\* The display renderer with the dates listed in the order of the fields of
\* ScheduleDates instead of the order of the display columns.
buildDisplayCsv_datesInTypeOrder(rows, schedule) ==
  LET n == Len(displayHeaders)
      headerLine == JoinWith(<<Chars("Trial Task")>> \o
                               [i \in 1..(n - 1) |-> Chars(displayHeaders[i + 1])], <<",">>)
      datesRow == JoinWith(<<esc(Str(Chars("dates")))>> \o
                             [i \in 1..(n - 1) |->
                                esc(Str(schedule[displayHeaders_dayAligned[i + 1]]))],
                           <<",">>)
      line(r) == JoinWith([i \in 1..n |->
                             esc(Coalesce(Get(r, displayHeaders[i]), Str(<<>>)))], <<",">>)
      dataLines == [i \in 1..Len(rows.v) |-> line(rows.v[i])]
  IN  JoinWith(<<headerLine, datesRow>> \o dataLines, <<"\n">>)

\* buildDisplayCsv(rows, schedule), for rows on which it does not throw
buildDisplayCsv(rows, schedule) ==
  LET n == Len(displayHeaders)
      headerLine == JoinWith(<<Chars("Trial Task")>> \o
                               [i \in 1..(n - 1) |-> Chars(displayHeaders[i + 1])], <<",">>)
      datesRow == JoinWith(<<esc(Str(Chars("dates")))>> \o
                             [i \in 1..(n - 1) |-> esc(Str(schedule[displayHeaders[i + 1]]))],
                           <<",">>)
      line(r) == JoinWith([i \in 1..n |->
                             esc(Coalesce(Get(r, displayHeaders[i]), Str(<<>>)))], <<",">>)
      dataLines == [i \in 1..Len(rows.v) |-> line(rows.v[i])]
  IN  JoinWith(<<headerLine, datesRow>> \o dataLines, <<"\n">>)

\* ------------------------------------------------------------------------
\* Visit Aggregator
\* ------------------------------------------------------------------------

columnPlan ==
  << [key |-> "screening", label |-> "Screening"],
     [key |-> "treatment_period_cycle_1_day_1", label |-> "C1D1"],
     [key |-> "treatment_period_cycle_1_day_8", label |-> "C1D8"],
     [key |-> "treatment_period_cycle_1_day_15", label |-> "C1D15"],
     [key |-> "treatment_period_cycle_2_day_1", label |-> "C2D1"],
     [key |-> "treatment_period_cycle_2_day_8", label |-> "C2D8"],
     [key |-> "treatment_period_cycle_2_day_15", label |-> "C2D15"],
     [key |-> "c3_and_beyond", label |-> "C3+ and beyond"],
     [key |-> "eot", label |-> "EOT"] >>

\* The filter without the trim: a cell of white space counts as marked.
CellMarked_noTrim(r, key) ==
  LET v == Get(r, key)
  IN  v.t # "undefined" /\ Len(ToStr(v)) > 0

\* The filter of the visit loop: v !== undefined && String(v).trim() !== ""
CellMarked(r, key) ==
  LET v == Get(r, key)
  IN  v.t # "undefined" /\ Len(Trim(ToStr(v))) > 0

\* eventsForColumn: row_label of the rows that pass the filter, in row order
eventsForColumn(rows, key) ==
  LET kept == SelectSeq(rows, LAMBDA r : CellMarked(r, key))
  IN  [i \in 1..Len(kept) |-> Get(kept[i], "row_label")]

RECURSIVE CollectVisits(_, _, _)
\* The loop over columnPlan from entry i on: the visits it pushes, in order.
CollectVisits(rows, schedule, i) ==
  IF i > Len(columnPlan) THEN <<>>
  ELSE LET col == columnPlan[i]
           dateStr == schedule[col.key]
       IN  (IF Len(dateStr) = 0 THEN <<>>
            ELSE << [date |-> dateStr,
                     label |-> col.label,
                     events |-> eventsForColumn(rows, col.key)] >>)
             \o CollectVisits(rows, schedule, i + 1)

CharOrder == <<"-", "0", "1", "2", "3", "4", "5", "6", "7", "8", "9">>

CharRank(c) == CHOOSE i \in 1..Len(CharOrder) : CharOrder[i] = c

RECURSIVE localeCompare(_, _)
\* a.localeCompare(b) for strings of digits and hyphens: negative, 0, positive
localeCompare(a, b) ==
  IF Len(a) = 0 /\ Len(b) = 0 THEN 0
  ELSE IF Len(a) = 0 THEN -1
  ELSE IF Len(b) = 0 THEN 1
  ELSE IF Head(a) = Head(b) THEN localeCompare(Tail(a), Tail(b))
  ELSE IF CharRank(Head(a)) < CharRank(Head(b)) THEN -1 ELSE 1

\* The comparator with its operands exchanged: latest date first.
compareVisits_descending(a, b) == localeCompare(b.date, a.date)

\* (a, b) => a.date.localeCompare(b.date)
compareVisits(a, b) == localeCompare(a.date, b.date)

RECURSIVE InsertVisit(_, _)
\* v placed after every entry that does not compare greater than it
InsertVisit(sorted, v) ==
  IF Len(sorted) = 0 THEN <<v>>
  ELSE IF compareVisits(sorted[Len(sorted)], v) <= 0 THEN Append(sorted, v)
  ELSE Append(InsertVisit(SubSeq(sorted, 1, Len(sorted) - 1), v), sorted[Len(sorted)])

RECURSIVE SortVisits(_)
\* visits.sort((a, b) => a.date.localeCompare(b.date)): a stable sort
SortVisits(vs) ==
  IF Len(vs) = 0 THEN <<>>
  ELSE InsertVisit(SortVisits(SubSeq(vs, 1, Len(vs) - 1)), vs[Len(vs)])

\* ------------------------------------------------------------------------
\* Document Service Client and the inference-based stages
\* ------------------------------------------------------------------------

Thrown(m) == [ok |-> FALSE, value |-> Undef, err |-> Msg(m)]

Returned(v) == [ok |-> TRUE, value |-> v, err |-> Undef]

\* uploadToOpenAIFiles, given the store's reply [ok, id]: data.id, or the
\* error thrown on a response that is not ok.
uploadToOpenAIFiles(reply) ==
  IF ~reply.ok THEN Thrown("Error: OpenAI files.create failed: 500")
  ELSE Returned(reply.id)

\* createResponses, given the inference service's reply [ok, data]
createResponses(reply) ==
  IF ~reply.ok THEN Thrown("Error: OpenAI responses.create failed: 500")
  ELSE Returned(reply.data)

\* data?.output?.[0]?.content?.[0]?.text ?? data?.output_text ?? ""
primaryText(data) == Coalesce(Coalesce(data.structured, data.flat), Str(<<>>))

\* !text || typeof text !== "string"
NoText(text) == ~Truthy(text) \/ text.t # "string"

extractTsvFromPdfByFileId(reply) ==
  LET resp == createResponses(reply)
  IN  IF ~resp.ok THEN resp
      ELSE LET tsvText == primaryText(resp.value)
           IN  IF NoText(tsvText) THEN Thrown("Error: TSV extraction failed.")
               ELSE Returned(tsvText)

\* Array.isArray(parsed?.pdf_indices) ? parsed.pdf_indices : []
PdfIndicesOf(parsed) ==
  LET p == IF parsed.t \in {"undefined", "null"} THEN Undef ELSE Get(parsed, "pdf_indices")
  IN  IF p.t = "array" THEN p.v ELSE <<>>

\* The two-attempt parse of detectSoePages: the index list, or the
\* SyntaxError thrown by the second JSON.parse.
ParseIndices(raw) ==
  LET direct == JsonParse(raw)
  IN  IF direct.ok THEN Returned(PdfIndicesOf(direct.value))
      ELSE LET match == MatchBraceSpan(raw)
           IN  IF Len(match) = 0 THEN Returned(<<>>)
               ELSE LET second == JsonParse(match)
                    IN  IF second.ok THEN Returned(PdfIndicesOf(second.value))
                        ELSE Thrown("SyntaxError: Unexpected token in JSON")

\* detectSoePages({fileId}, apiKey) for a fileId that is set: value is
\* [raw, pdfIndices].
detectSoePages(reply) ==
  LET resp == createResponses(reply)
  IN  IF ~resp.ok THEN resp
      ELSE LET raw == primaryText(resp.value)
           IN  IF NoText(raw) THEN Thrown("Error: Missing text output from Responses API.")
               ELSE LET parsed == ParseIndices(raw.v)
                    IN  IF ~parsed.ok THEN parsed
                        ELSE IF Len(parsed.value) = 0
                          THEN Thrown("Error: No indices parsed from model output")
                        ELSE Returned([raw |-> raw, pdfIndices |-> Arr(parsed.value)])

\* convertTsvToFixedJson: JSON.parse of the text, whatever value it is
convertTsvToFixedJson(reply) ==
  LET resp == createResponses(reply)
  IN  IF ~resp.ok THEN resp
      ELSE LET rawJson == primaryText(resp.value)
           IN  IF NoText(rawJson) THEN Thrown("Error: JSON conversion failed.")
               ELSE LET rows == JsonParse(rawJson.v)
                    IN  IF ~rows.ok THEN Thrown("SyntaxError: Unexpected token in JSON")
                        ELSE Returned(rows.value)

\* buildSoeOnlyPdfFile, given whether the PDF library manages to load the
\* source and copy the pages
buildSoeOnlyPdfFile(pdfOk) ==
  IF pdfOk THEN Returned(Str(<<"s", "o", "e", "_", "o", "n", "l", "y", ".", "p", "d", "f">>))
  ELSE Thrown("Error: Failed to build the reduced PDF")

\* fileToBase64, given whether the encoding succeeds
fileToBase64(b64Ok) ==
  IF b64Ok THEN Returned(Str(<<"J", "V", "B", "E", "R", "g", "=", "=">>))
  ELSE Thrown("RangeError: Maximum call stack size exceeded")

\* ------------------------------------------------------------------------
\* The request and what the external services may answer
\* ------------------------------------------------------------------------

FlagNames == {"includeSoePdf", "runUpload", "runDetect", "runReduce", "runTsv", "runJson"}

\* The result of parseRunFlags
RunFlags == [FlagNames -> BOOLEAN]

AFile == [t |-> "File"]

\* formData.get("file"): null, a string field (empty or not), or a File
\* What formData.get(key) and url.searchParams.get(key) give for a flag: null
\* when the field is not carried, else its text
FieldValues == {Null, Str(<<"1">>), Str(<<"0">>)}

\* The form field alone decides when the form carries it.
on_formFirst(searchParams, formData, key) ==
  IF formData[key] # Null THEN formData[key] = Str(<<"1">>)
  ELSE searchParams[key] = Str(<<"1">>)

\* on(key) of parseRunFlags
on(searchParams, formData, key) ==
  formData[key] = Str(<<"1">>) \/ searchParams[key] = Str(<<"1">>)

parseRunFlags(searchParams, formData) ==
  [key \in FlagNames |-> on(searchParams, formData, key)]

\* The requests of the page: every flag in the query, as "1" or not at all
PageQueries == [FlagNames -> {Null, Str(<<"1">>)}]

\* The flags that the requests of SpecFlags carry, in the form, the query,
\* both or neither
FlagFields == {"runTsv", "runJson"}

FileInputs == {Null, Str(<<>>), Str(<<"a">>), AFile}

\* getOpenAIKey(context): undefined, or the configured string
KeyInputs == {Undef, Str(<<>>), Str(<<"s", "k">>)}

\* Time zones of the host
Zones == {"UTC", "America/New_York"}

\* Anchor instants new Date() may return: the first hour of a UTC day on a
\* host in either zone, and a noon.
AnchorDays ==
  { Date(DaysFromCivil(2025, 1, 1) * HoursPerDay, z) : z \in Zones }
    \cup {Date(DaysFromCivil(2024, 12, 20) * HoursPerDay + 12, "America/New_York")}

StoreCalls(log) == SelectSeq(log, LAMBDA c : c.op = "store")

\* Replies of the store to the next upload: not ok, ok without an id, or ok
\* with a fresh identifier.
StoreReplies(log) ==
  { [ok |-> FALSE, id |-> Undef],
    [ok |-> TRUE, id |-> Undef],
    [ok |-> TRUE, id |-> Str(<<"f">> \o Digits(Len(StoreCalls(log)) + 1))] }

NonText == {Undef, Num(1), Str(<<>>)}

\* Replies of the inference service: not ok, or ok with a body whose two
\* text locations hold nothing, something that is no text, or a text.
InferReplies(texts, flatTexts) ==
  {[ok |-> FALSE, data |-> Undef]} \cup
  { [ok |-> TRUE, data |-> [structured |-> a, flat |-> b]] :
      a \in NonText \cup {Str(t) : t \in texts},
      b \in {Undef} \cup {Str(t) : t \in flatTexts} }

DetectTexts ==
  { <<"{", "I", "}">>,
    <<"x", " ", "{", "I", "}", " ", "x">>,
    <<"{", "E", "}">>,
    <<"{", "N", "}">>,
    <<"x">>,
    <<"x", "{", "x", "}">>,
    <<"{", "I", "}", "x", "{", "}">>,
    <<"null">>,
    <<"[", "]">> }

TsvTexts == {<<"a", "\t", "X">>}

\* The text of a JSON array of the given value symbols
ArrayText(syms) ==
  <<"[">> \o JoinWith([i \in 1..Len(syms) |-> <<syms[i]>>], <<",">>) \o <<"]">>

NormalizeTexts ==
  {ArrayText(syms) : syms \in UNION {[1..n -> ValueSyms] : n \in 0..MaxRows}}
    \cup {<<"x">>, <<"{", "}">>, <<"null">>}

\* Replies to the normalization call: output_text holds a text only next to
\* a structured text of at most one row, or next to none.
NormalizeReplies ==
  { r \in InferReplies(NormalizeTexts, {<<"[", "rA", "]">>}) :
      r.ok => \/ r.data.flat = Undef
              \/ r.data.structured \in NonText
              \/ Len(r.data.structured.v) <= 3 }

\* ------------------------------------------------------------------------
\* State
\* ------------------------------------------------------------------------

VARIABLES
  pc,            \* position of the action in its processing block
  file,          \* formData.get("file")
  searchParams,  \* per flag, url.searchParams.get(key)
  formData,      \* per flag, formData.get(key)
  flags,         \* parseRunFlags(url, formData)
  apiKey,        \* getOpenAIKey(context)
  visits, fileId, uploadError, pdfIndices, detectRaw, detectError, tsv,
  tableData, csv, csvDisplay, soeFileId, soePdfBase64, soeFileName,
  schedule,      \* the schedule of the normalization block, once computed
  today,         \* the instant new Date() gave the normalization block
  inferred,      \* the reply createResponses gave the detection block just left
  calls,         \* the requests sent to the store and the inference service
  failed,        \* per stage, the diagnostic text of its failure, if it failed
  response,      \* what the action returned
  calReq,        \* the request a calendar route is handling
  calPc,         \* position of the calendar route in its handler
  calFetches,    \* the requests the calendar route sent to Google
  calResponse,   \* what the calendar route returned
  busy,          \* fb.calendars?.primary?.busy || []
  dayStart,      \* the working window, in minutes from the midnight of the date
  dayEnd,
  stepMs,        \* slotMinutes * 60 * 1000, in minutes
  slotT,         \* t of the slot loop
  slots,         \* the slots pushed so far
  iterations     \* times the body of the slot loop has run

locals ==
  <<visits, fileId, uploadError, pdfIndices, detectRaw, detectError, tsv,
    tableData, csv, csvDisplay, soeFileId, soePdfBase64, soeFileName, schedule>>

inputs == <<file, searchParams, formData, flags, apiKey>>

\* The state of the calendar routes (free/busy, OAuth callback)
calendar ==
  <<calReq, calPc, calFetches, calResponse, busy, dayStart, dayEnd, stepMs, slotT, slots,
    iterations>>

vars == <<pc, inputs, locals, today, inferred, calls, failed, response, calendar>>

Stages == {"upload", "detect", "reduce", "tsv", "json"}

StoreCall(stage, what) == [op |-> "store", stage |-> stage, file |-> what, ref |-> Undef]

InferCall(stage, ref) == [op |-> "infer", stage |-> stage, file |-> "none", ref |-> ref]

\* The locals of the action as declared, and nothing sent or returned yet
InitLocals ==
  /\ pc = "start"
  /\ visits = <<>>
  /\ fileId = Undef
  /\ uploadError = Undef
  /\ pdfIndices = Undef
  /\ detectRaw = Undef
  /\ detectError = Undef
  /\ tsv = Undef
  /\ tableData = Undef
  /\ csv = Undef
  /\ csvDisplay = Undef
  /\ soeFileId = Undef
  /\ soePdfBase64 = Undef
  /\ soeFileName = Undef
  /\ schedule = Undef
  /\ today = Undef
  /\ inferred = Undef
  /\ calls = <<>>
  /\ failed = [s \in Stages |-> Undef]
  /\ response = Undef

\* No calendar route is handling a request
CalendarIdle ==
  /\ calReq = Undef
  /\ calPc = "idle"
  /\ calFetches = <<>>
  /\ calResponse = Undef
  /\ busy = <<>>
  /\ dayStart = Undef
  /\ dayEnd = Undef
  /\ stepMs = Undef
  /\ slotT = Undef
  /\ slots = <<>>
  /\ iterations = 0

Init ==
  /\ CalendarIdle
  /\ file \in FileInputs
  /\ searchParams \in PageQueries
  /\ formData = [key \in FlagNames |-> Null]
  /\ flags = parseRunFlags(searchParams, formData)
  /\ apiKey \in KeyInputs
  /\ InitLocals

\* ------------------------------------------------------------------------
\* The action, stage by stage
\* ------------------------------------------------------------------------

\* The blocks in another order: extraction ahead of reduction.
StageAfter_extractionFirst(stage) ==
  CASE stage = "upload" -> "detect"
    [] stage = "detect" -> "tsv"
    [] stage = "tsv" -> "reduce"
    [] stage = "reduce" -> "json"
    [] stage = "json" -> "respond"

\* The upload block entered again after it ends.
StageAfter_uploadAgain(stage) ==
  CASE stage = "upload" -> "upload"
    [] stage = "detect" -> "reduce"
    [] stage = "reduce" -> "tsv"
    [] stage = "tsv" -> "json"
    [] stage = "json" -> "respond"

\* The block that follows the block of a stage in the text of the action
StageAfter(stage) ==
  CASE stage = "upload" -> "detect"
    [] stage = "detect" -> "reduce"
    [] stage = "reduce" -> "tsv"
    [] stage = "tsv" -> "json"
    [] stage = "json" -> "respond"

\* The preview flag counted among the stage flags.
anyRun_withPreview ==
  flags["includeSoePdf"] \/ flags["runUpload"] \/ flags["runDetect"]
    \/ flags["runReduce"] \/ flags["runTsv"] \/ flags["runJson"]

anyRun ==
  flags["runUpload"] \/ flags["runDetect"] \/ flags["runReduce"]
    \/ flags["runTsv"] \/ flags["runJson"]

\* detectError = detectError ?? `${err}`
KeepFirstError(err) == Coalesce(detectError, err)

\* apiKey === undefined: an empty key passes.
keyMissing_undefinedOnly == apiKey = Undef

\* !apiKey
keyMissing == ~Truthy(apiKey)

\* fileId && runDetect
runsDetect == Truthy(fileId) /\ flags["runDetect"]

\* fileId && runReduce: the index list is not asked for.
runsReduce_noIndexCheck == Truthy(fileId) /\ flags["runReduce"]

\* fileId && runReduce && pdfIndices && pdfIndices.length > 0
runsReduce ==
  /\ Truthy(fileId)
  /\ flags["runReduce"]
  /\ Truthy(pdfIndices)
  /\ Len(pdfIndices.v) > 0

\* fileId || soeFileId: the original reference preferred.
targetFileId_originalFirst == IF Truthy(fileId) THEN fileId ELSE soeFileId

\* soeFileId alone: no fallback to the original reference.
targetFileId_reducedOnly == soeFileId

\* soeFileId || fileId
targetFileId == IF Truthy(soeFileId) THEN soeFileId ELSE fileId

\* runTsv alone: no reference is asked for.
runsTsv_flagOnly == flags["runTsv"]

\* runTsv, and then targetFileId
runsTsv == flags["runTsv"] /\ Truthy(targetFileId)

\* runJson alone: the tabular text is not asked for.
runsNormalize_flagOnly == flags["runJson"]

\* runJson && tsv
runsNormalize == flags["runJson"] /\ Truthy(tsv)

\* A status that turns into a server error once a diagnostic is recorded.
ResponseStatus_failsOnError ==
  IF uploadError # Undef \/ detectError # Undef THEN 500 ELSE 200

\* json(body) answers with the default status
ResponseStatus == 200

\* The checks ahead of the stages: a File with some run flag set and a key
\* configured enters the stages; otherwise the block ends at once.
Start ==
  /\ pc = "start"
  /\ IF file.t = "File" /\ anyRun
       THEN IF keyMissing
              THEN /\ uploadError' = Msg("Missing OPENAI_API_KEY")
                   /\ pc' = "respond"
              ELSE /\ uploadError' = uploadError
                   /\ pc' = "upload"
       ELSE IF ~Truthy(file)
         THEN /\ uploadError' = Msg("No file provided")
              /\ pc' = "respond"
         ELSE /\ uploadError' = uploadError
              /\ pc' = "respond"
  /\ UNCHANGED <<calendar, inputs, visits, fileId, pdfIndices, detectRaw, detectError, tsv,
                 tableData, csv, csvDisplay, soeFileId, soePdfBase64, soeFileName,
                 schedule, today, inferred, calls, failed, response>>

\* fileId = await uploadToOpenAIFiles(file, apiKey), in its own try
Upload ==
  /\ pc = "upload"
  /\ \E reply \in StoreReplies(calls) :
       LET r == uploadToOpenAIFiles(reply)
       IN  /\ calls' = Append(calls, StoreCall("upload", "original"))
           /\ fileId' = IF r.ok THEN r.value ELSE fileId
           /\ uploadError' = IF r.ok THEN uploadError ELSE r.err
           /\ failed' = IF r.ok THEN failed ELSE [failed EXCEPT !["upload"] = r.err]
  /\ pc' = StageAfter("upload")
  /\ UNCHANGED <<calendar, inputs, visits, pdfIndices, detectRaw, detectError, tsv, tableData,
                 csv, csvDisplay, soeFileId, soePdfBase64, soeFileName, schedule,
                 today, inferred, response>>

\* if (fileId && runDetect) { try { detectSoePages } catch { detectError } }
Detect ==
  /\ pc = "detect"
  /\ IF runsDetect
       THEN \E reply \in InferReplies(DetectTexts, {<<"{", "I", "}">>}) :
              LET r == detectSoePages(reply)
              IN  /\ calls' = Append(calls, InferCall("detect", fileId))
                  /\ inferred' = reply
                  /\ pdfIndices' = IF r.ok THEN r.value.pdfIndices ELSE pdfIndices
                  /\ detectRaw' = IF r.ok THEN r.value.raw ELSE detectRaw
                  /\ detectError' = IF r.ok THEN detectError ELSE r.err
                  /\ failed' = IF r.ok THEN failed ELSE [failed EXCEPT !["detect"] = r.err]
       ELSE /\ inferred' = Undef
            /\ UNCHANGED <<calls, pdfIndices, detectRaw, detectError, failed>>
  /\ pc' = StageAfter("detect")
  /\ UNCHANGED <<calendar, inputs, visits, fileId, uploadError, tsv, tableData, csv, csvDisplay,
                 soeFileId, soePdfBase64, soeFileName, schedule, today, response>>

\* if (fileId && runReduce && pdfIndices && pdfIndices.length > 0) { try {
\* build the reduced file, optionally encode it, upload it } catch { ... } }
Reduce ==
  /\ pc = "reduce"
  /\ IF runsReduce
       THEN \E pdfOk \in BOOLEAN, b64Ok \in BOOLEAN, reply \in StoreReplies(calls) :
              LET soeFile == buildSoeOnlyPdfFile(pdfOk)
                  encode == soeFile.ok /\ flags["includeSoePdf"]
                  b64 == IF encode THEN fileToBase64(b64Ok) ELSE Returned(Undef)
                  uploads == soeFile.ok /\ b64.ok
                  up == uploadToOpenAIFiles(reply)
                  err == IF ~soeFile.ok THEN soeFile.err
                         ELSE IF ~b64.ok THEN b64.err
                         ELSE IF ~up.ok THEN up.err
                         ELSE Undef
              IN  /\ soePdfBase64' = IF encode /\ b64.ok THEN b64.value ELSE soePdfBase64
                  /\ soeFileName' = IF encode /\ b64.ok THEN soeFile.value ELSE soeFileName
                  /\ calls' = IF uploads
                                THEN Append(calls, StoreCall("reduce", "soe_only.pdf"))
                                ELSE calls
                  /\ soeFileId' = IF uploads /\ up.ok THEN up.value ELSE soeFileId
                  /\ detectError' = IF err = Undef THEN detectError ELSE KeepFirstError(err)
                  /\ failed' = IF err = Undef THEN failed
                               ELSE [failed EXCEPT !["reduce"] = err]
       ELSE UNCHANGED <<soePdfBase64, soeFileName, calls, soeFileId, detectError, failed>>
  /\ pc' = StageAfter("reduce")
  /\ inferred' = Undef
  /\ UNCHANGED <<calendar, inputs, visits, fileId, uploadError, pdfIndices, detectRaw, tsv,
                 tableData, csv, csvDisplay, schedule, today, response>>

\* if (runTsv) { try { if (targetFileId) tsv = await extractTsv... } catch { ... } }
ExtractTsv ==
  /\ pc = "tsv"
  /\ IF runsTsv
       THEN \E reply \in InferReplies(TsvTexts, TsvTexts) :
              LET r == extractTsvFromPdfByFileId(reply)
              IN  /\ calls' = Append(calls, InferCall("tsv", targetFileId))
                  /\ tsv' = IF r.ok THEN r.value ELSE tsv
                  /\ detectError' = IF r.ok THEN detectError ELSE KeepFirstError(r.err)
                  /\ failed' = IF r.ok THEN failed ELSE [failed EXCEPT !["tsv"] = r.err]
       ELSE UNCHANGED <<calls, tsv, detectError, failed>>
  /\ pc' = StageAfter("tsv")
  /\ UNCHANGED <<calendar, inputs, visits, fileId, uploadError, pdfIndices, detectRaw, tableData,
                 csv, csvDisplay, soeFileId, soePdfBase64, soeFileName, schedule,
                 today, inferred, response>>

\* if (runJson && tsv) { try { tableData, csv, schedule, csvDisplay, visits }
\* catch { ... } }
Normalize ==
  /\ pc = "json"
  /\ IF runsNormalize
       THEN \E reply \in NormalizeReplies,
               now \in AnchorDays :
              LET r == convertTsvToFixedJson(reply)
                  renders == r.ok /\ ~MapRowsThrows(r.value)
                  dates == computeScheduleDates(now)
                  err == IF ~r.ok THEN r.err
                         ELSE IF ~renders THEN Msg("TypeError: rows.map is not a function")
                         ELSE Undef
              IN  /\ calls' = Append(calls, InferCall("json", Undef))
                  /\ tableData' = IF r.ok THEN r.value ELSE tableData
                  /\ csv' = IF renders THEN Str(rowsToCsv(r.value)) ELSE csv
                  /\ schedule' = IF renders THEN Obj(dates) ELSE schedule
                  /\ today' = IF renders THEN now ELSE today
                  /\ csvDisplay' = IF renders THEN Str(buildDisplayCsv(r.value, dates))
                                   ELSE csvDisplay
                  /\ visits' = IF renders
                                 THEN SortVisits(visits \o CollectVisits(r.value.v, dates, 1))
                                 ELSE visits
                  /\ detectError' = IF err = Undef THEN detectError ELSE KeepFirstError(err)
                  /\ failed' = IF err = Undef THEN failed ELSE [failed EXCEPT !["json"] = err]
       ELSE UNCHANGED <<calls, tableData, csv, schedule, today, csvDisplay, visits,
                        detectError, failed>>
  /\ pc' = StageAfter("json")
  /\ UNCHANGED <<calendar, inputs, fileId, uploadError, pdfIndices, detectRaw, tsv, soeFileId,
                 soePdfBase64, soeFileName, inferred, response>>

\* return json({...}): status 200; a field that is undefined is absent from
\* the serialized body.
Respond ==
  /\ pc = "respond"
  /\ response' = [status |-> ResponseStatus,
                  body |-> [visits |-> visits,
                            fileId |-> fileId,
                            uploadError |-> uploadError,
                            pdfIndices |-> pdfIndices,
                            detectRaw |-> detectRaw,
                            detectError |-> detectError,
                            tsv |-> tsv,
                            tableData |-> tableData,
                            csv |-> csv,
                            csv_display |-> Coalesce(csvDisplay, Undef),
                            soeFileId |-> soeFileId,
                            soePdfBase64 |-> soePdfBase64,
                            soeFileName |-> soeFileName]]
  /\ pc' = "done"
  /\ UNCHANGED <<calendar, inputs, locals, today, inferred, calls, failed>>

Next == Start \/ Upload \/ Detect \/ Reduce \/ ExtractTsv \/ Normalize \/ Respond

Spec == Init /\ [][Next]_vars

\* The requests that go straight to the renderers: a File, a key, and the
\* extraction and normalization stages asked for.
InitRender ==
  /\ Init
  /\ file = AFile
  /\ apiKey = Str(<<"s", "k">>)
  /\ flags = [f \in FlagNames |-> f \in {"runTsv", "runJson"}]

SpecRender == InitRender /\ [][Next]_vars

\* The requests that carry flags in the form as well as in the query: a
\* File, a key, and every combination of form and query values of the flags
\* of FlagFields.
InitFlags ==
  /\ CalendarIdle
  /\ file = AFile
  /\ \E q \in [FlagFields -> FieldValues] :
       searchParams = [key \in FlagNames |-> IF key \in FlagFields THEN q[key] ELSE Null]
  /\ \E f \in [FlagFields -> FieldValues] :
       formData = [key \in FlagNames |-> IF key \in FlagFields THEN f[key] ELSE Null]
  /\ flags = parseRunFlags(searchParams, formData)
  /\ apiKey = Str(<<"s", "k">>)
  /\ InitLocals

SpecFlags == InitFlags /\ [][Next]_vars

\* ------------------------------------------------------------------------
\* Vocabulary of the properties
\* ------------------------------------------------------------------------

Done == pc = "done"

\* A record of the 12 fixed keys, each holding a string
IsSoeRow(r) ==
  /\ r.t = "object"
  /\ DOMAIN r.v = SoeKeys
  /\ \A k \in SoeKeys : r.v[k].t = "string"

IsSoeRows(table) ==
  /\ table.t = "array"
  /\ \A n \in 1..Len(table.v) : IsSoeRow(table.v[n])

\* The cell of a SoeRow holds nothing but white space
BlankCell(r, key) ==
  \A i \in 1..Len(r.v[key].v) : r.v[key].v[i] \in WhiteSpace

\* Positions of the visits of a milestone in the response
VisitsLabelled(label) ==
  {j \in 1..Len(response.body.visits) : response.body.visits[j].label = label}

\* row_label of the rows whose cell under key is not blank, in row order
MarkedLabels(rows, key) ==
  LET kept == SelectSeq(rows, LAMBDA r : ~BlankCell(r, key))
  IN  [i \in 1..Len(kept) |-> kept[i].v["row_label"]]

\* The response carries the derived outputs of a table of SoeRows
AggregatedSoeRows ==
  /\ Done
  /\ IsSoeRows(response.body.tableData)
  /\ response.body.csv # Undef

\* ------------------------------------------------------------------------
\* Properties
\* ------------------------------------------------------------------------

\* C1: a milestone column whose cell is blank after trimming in every row
\* of the table contributes no Visit to the visits of the response.
C1_BlankColumnYieldsNoVisit ==
  AggregatedSoeRows =>
    \A i \in 1..Len(columnPlan) :
      (\A n \in 1..Len(response.body.tableData.v) :
          BlankCell(response.body.tableData.v[n], columnPlan[i].key))
        => VisitsLabelled(columnPlan[i].label) = {}

\* C2: a milestone column with a non-blank cell in at least one row has
\* exactly one Visit in the response; its date is the schedule's date of that
\* milestone and its events are the row_label of exactly the rows with a
\* non-blank cell in the column, in row order.
C2_MarkedColumnYieldsOneVisit ==
  AggregatedSoeRows =>
    \A i \in 1..Len(columnPlan) :
      LET rows == response.body.tableData.v
          key == columnPlan[i].key
      IN  (\E n \in 1..Len(rows) : ~BlankCell(rows[n], key))
            => \E j \in 1..Len(response.body.visits) :
                 /\ VisitsLabelled(columnPlan[i].label) = {j}
                 /\ response.body.visits[j].date = schedule.v[key]
                 /\ response.body.visits[j].events = MarkedLabels(rows, key)
                 /\ Len(response.body.visits[j].events)
                      = Cardinality({n \in 1..Len(rows) : ~BlankCell(rows[n], key)})

\* Two rows, a column marked in both and a column marked in one of them
\* only, where the other row holds white space.
C2_Witness ==
  /\ AggregatedSoeRows
  /\ Len(response.body.tableData.v) = 2
  /\ \E j, k \in 1..Len(response.body.visits) :
       /\ Len(response.body.visits[j].events) = 2
       /\ response.body.visits[k].label = "C1D1"
       /\ Len(response.body.visits[k].events) = 1
       /\ \E n \in 1..2 :
            response.body.tableData.v[n].v["treatment_period_cycle_1_day_1"] = Str(<<" ">>)

\* A request of some stage was sent
HasCall(stage) == \E i \in 1..Len(calls) : calls[i].stage = stage

\* The store calls that carry the original file
OriginalStoreCalls ==
  {i \in 1..Len(calls) : calls[i].op = "store" /\ calls[i].file = "original"}

\* One of the five stage flags is set
SomeStageFlag == \E f \in FlagNames \ {"includeSoePdf"} : flags[f]

\* A non-empty API key is configured
KeyConfigured == apiKey.t = "string" /\ Len(apiKey.v) > 0

\* C3: when the table-extraction call fails (or returns empty or non-text
\* output) the normalization call is never issued, and the response has
\* success status, an empty visits array and neither csv nor csv_display.
C3_ExtractionFailureSkipsNormalization ==
  failed["tsv"] # Undef =>
    /\ ~HasCall("json")
    /\ Done => /\ response.status = 200
               /\ response.body.visits = <<>>
               /\ response.body.csv = Undef
               /\ response.body.csv_display = Undef

\* Extraction answered without text although normalization was requested.
C3_Witness ==
  /\ Done
  /\ flags["runJson"]
  /\ failed["tsv"] = Msg("Error: TSV extraction failed.")
  /\ response.body.visits = <<>>

\* C4: the response contains the diagnostic text of the own failure of
\* every stage that failed, also when an earlier stage of the request failed.
C4_EveryStageFailureReported ==
  Done =>
    \A st \in Stages :
      failed[st] # Undef =>
        failed[st] \in {response.body.uploadError, response.body.detectError}

\* C5: with a file reference from the upload, a failure of detection or of
\* reduction still leads to the extraction call against the original
\* reference when runTsv is set, and an extraction that succeeded leads to
\* the normalization call when runJson is set.
C5_FailedStageDoesNotAbortLaterStages ==
  (pc \in {"respond", "done"} /\ Truthy(fileId)) =>
    /\ (flags["runTsv"] /\ (failed["detect"] # Undef \/ failed["reduce"] # Undef))
         => \E i \in 1..Len(calls) : calls[i] = InferCall("tsv", fileId)
    /\ (flags["runJson"] /\ HasCall("tsv") /\ failed["tsv"] = Undef)
         => HasCall("json")

\* Reduction failed, extraction ran on the original reference and
\* normalization followed.
C5_Witness ==
  /\ Done
  /\ failed["reduce"] # Undef
  /\ \E i \in 1..Len(calls) : calls[i] = InferCall("tsv", fileId)
  /\ HasCall("json")

\* C6, as claimed: with runUpload unset no store call for the original file
\* is issued.
C6_UploadGatedByOwnFlag ==
  ~flags["runUpload"] => OriginalStoreCalls = {}

\* C6, amended: the store call for the original file is gated by the five
\* stage flags together; it is issued, once, exactly when a File is given, a
\* key is configured and at least one of the five flags is set.
C6_UploadGatedByAnyStageFlag ==
  /\ OriginalStoreCalls # {} => (SomeStageFlag /\ file = AFile /\ KeyConfigured)
  /\ (pc \notin {"start", "upload"} /\ SomeStageFlag /\ file = AFile /\ KeyConfigured)
       => Cardinality(OriginalStoreCalls) = 1

\* The original file was uploaded although runUpload is unset.
C6_Witness ==
  /\ Done
  /\ ~flags["runUpload"]
  /\ OriginalStoreCalls # {}

\* C7: a stage issues its external call only with its own flag set and its
\* upstream artifact at hand: detection a file reference; reduction a
\* non-empty index list that detection produced in this request; extraction
\* a file reference, reduced or original; normalization tabular text.
C7_StageGating ==
  /\ HasCall("detect") => (flags["runDetect"] /\ Truthy(fileId))
  /\ (HasCall("reduce") \/ failed["reduce"] # Undef)
       => /\ flags["runReduce"]
          /\ flags["runDetect"]
          /\ HasCall("detect")
          /\ failed["detect"] = Undef
          /\ pdfIndices.t = "array"
          /\ Len(pdfIndices.v) > 0
  /\ \A i \in 1..Len(calls) :
       calls[i].stage = "tsv"
         => /\ flags["runTsv"]
            /\ Truthy(calls[i].ref)
            /\ calls[i].ref \in {fileId, soeFileId}
  /\ HasCall("json")
       => (flags["runJson"] /\ tsv.t = "string" /\ Len(tsv.v) > 0)

\* All five external calls were issued.
C7_Witness ==
  /\ Done
  /\ \A st \in Stages : HasCall(st)

\* C8: whatever the flags and whatever succeeds or fails, processing goes on
\* until the action returns, and what it returns is a success-status
\* response whose visits is an array.
C8_AlwaysBestEffortResponse ==
  /\ ~Done => (ENABLED Next /\ response = Undef)
  /\ Done => /\ response.status = 200
             /\ DOMAIN response.body.visits = 1..Len(response.body.visits)

\* Upload succeeded, detection and extraction both failed, and the action
\* returned.
C8_Witness ==
  /\ Done
  /\ failed["detect"] # Undef
  /\ failed["tsv"] # Undef
  /\ response.status = 200

\* C9: a File, some stage flag and no API key: no store or inference call,
\* a success-status response with uploadError "Missing OPENAI_API_KEY",
\* empty visits and every other field absent.
C9_MissingCredential ==
  (file = AFile /\ SomeStageFlag /\ ~KeyConfigured) =>
    /\ calls = <<>>
    /\ Done => /\ response.status = 200
               /\ response.body =
                    [visits |-> <<>>,
                     fileId |-> Undef,
                     uploadError |-> Msg("Missing OPENAI_API_KEY"),
                     pdfIndices |-> Undef,
                     detectRaw |-> Undef,
                     detectError |-> Undef,
                     tsv |-> Undef,
                     tableData |-> Undef,
                     csv |-> Undef,
                     csv_display |-> Undef,
                     soeFileId |-> Undef,
                     soePdfBase64 |-> Undef,
                     soeFileName |-> Undef]

\* The key is configured as the empty string and the action returned.
C9_Witness ==
  /\ Done
  /\ file = AFile
  /\ flags["runJson"]
  /\ apiKey = Str(<<>>)
  /\ response.body.uploadError = Msg("Missing OPENAI_API_KEY")

\* C10: whenever the file field carries no File (absent, or present but not
\* a file), whatever the flags, no stage runs and the response reports
\* "No file provided" in uploadError.
C10_MissingFileReported ==
  file # AFile =>
    /\ calls = <<>>
    /\ Done => response.body.uploadError = Msg("No file provided")

\* The reduction stage has run in this request
ReduceStageRan == pc \in {"tsv", "json", "respond", "done"} /\ runsReduce

\* The reduced file was built: the PDF library did not fail
ReducedFileBuilt ==
  ReduceStageRan /\ failed["reduce"] # buildSoeOnlyPdfFile(FALSE).err

\* C11: includeSoePdf does not change what the pipeline does: whenever the
\* reduction stage runs and builds the reduced file, the file is registered
\* with the store - as it is in every run with the flag unset - and a
\* failure while producing the base64 preview does not prevent that.
C11_PreviewDoesNotAffectPipeline == ReducedFileBuilt => HasCall("reduce")

\* The same, for the runs with includeSoePdf unset
C11_RegisteredWithoutPreview ==
  (ReducedFileBuilt /\ ~flags["includeSoePdf"]) => HasCall("reduce")

\* The anchor day T: the UTC calendar day of the anchor instant
AnchorDay == today.time \div HoursPerDay

\* The YYYY-MM-DD text of the calendar day n days after the anchor day
DayAfterAnchor(n) == formatIsoDate(Date((AnchorDay + n) * HoursPerDay, "UTC"))

\* The characters of a date text
DateText(y, m, d) ==
  PadStart(Digits(y), 4) \o <<"-">> \o PadStart(Digits(m), 2) \o <<"-">>
    \o PadStart(Digits(d), 2)

\* C12: for every anchor day T the schedule holds screening = T+1, C1D1 =
\* T+8, C1D8 = T+15, C1D15 = T+22, C2D1 = T+52, C2D8 = T+59, C2D15 = T+66,
\* C3+ = T+96 and EOT = T+126 days, each under its ScheduleDates key; for
\* T = 2025-01-01 these are 2025-01-02, 01-09, 01-16, 01-23, 02-22, 03-01,
\* 03-08, 04-07 and 05-07.
C12_ScheduleOffsets ==
  schedule # Undef =>
    /\ schedule.v.screening = DayAfterAnchor(1)
    /\ schedule.v.treatment_period_cycle_1_day_1 = DayAfterAnchor(8)
    /\ schedule.v.treatment_period_cycle_1_day_8 = DayAfterAnchor(15)
    /\ schedule.v.treatment_period_cycle_1_day_15 = DayAfterAnchor(22)
    /\ schedule.v.treatment_period_cycle_2_day_1 = DayAfterAnchor(52)
    /\ schedule.v.treatment_period_cycle_2_day_8 = DayAfterAnchor(59)
    /\ schedule.v.treatment_period_cycle_2_day_15 = DayAfterAnchor(66)
    /\ schedule.v.c3_and_beyond = DayAfterAnchor(96)
    /\ schedule.v.eot = DayAfterAnchor(126)
    /\ AnchorDay = DaysFromCivil(2025, 1, 1) =>
         /\ schedule.v.screening = DateText(2025, 1, 2)
         /\ schedule.v.treatment_period_cycle_1_day_1 = DateText(2025, 1, 9)
         /\ schedule.v.treatment_period_cycle_1_day_8 = DateText(2025, 1, 16)
         /\ schedule.v.treatment_period_cycle_1_day_15 = DateText(2025, 1, 23)
         /\ schedule.v.treatment_period_cycle_2_day_1 = DateText(2025, 2, 22)
         /\ schedule.v.treatment_period_cycle_2_day_8 = DateText(2025, 3, 1)
         /\ schedule.v.treatment_period_cycle_2_day_15 = DateText(2025, 3, 8)
         /\ schedule.v.c3_and_beyond = DateText(2025, 4, 7)
         /\ schedule.v.eot = DateText(2025, 5, 7)

\* The same, on a host whose local time is UTC
C12_ScheduleOffsetsInUtc ==
  (schedule # Undef /\ today.zone = "UTC") =>
    /\ schedule.v.screening = DateText(2025, 1, 2)
    /\ schedule.v.treatment_period_cycle_1_day_1 = DateText(2025, 1, 9)
    /\ schedule.v.treatment_period_cycle_1_day_8 = DateText(2025, 1, 16)
    /\ schedule.v.treatment_period_cycle_1_day_15 = DateText(2025, 1, 23)
    /\ schedule.v.treatment_period_cycle_2_day_1 = DateText(2025, 2, 22)
    /\ schedule.v.treatment_period_cycle_2_day_8 = DateText(2025, 3, 1)
    /\ schedule.v.treatment_period_cycle_2_day_15 = DateText(2025, 3, 8)
    /\ schedule.v.c3_and_beyond = DateText(2025, 4, 7)
    /\ schedule.v.eot = DateText(2025, 5, 7)

\* The ScheduleDates keys in the fixed milestone order
MilestoneKeys == [i \in 1..Len(columnPlan) |-> columnPlan[i].key]

\* Text a is not later than text b, as YYYY-MM-DD dates
NotLater(a, b) == localeCompare(a, b) <= 0

\* C13: for every anchor date the nine computed dates are non-decreasing in
\* the milestone order screening, C1D1, C1D8, C1D15, C2D1, C2D8, C2D15, C3+,
\* EOT, and the protocol_section placeholder is the empty string.
C13_ScheduleNonDecreasing ==
  schedule # Undef =>
    /\ DOMAIN schedule.v = {"protocol_section"} \cup {MilestoneKeys[i] : i \in 1..9}
    /\ schedule.v.protocol_section = <<>>
    /\ \A i \in 1..8 :
         NotLater(schedule.v[MilestoneKeys[i]], schedule.v[MilestoneKeys[i + 1]])

\* A schedule was computed on a host in a zone with daylight saving time,
\* from an anchor in the first UTC hour of a day, and returned.
C13_Witness ==
  /\ Done
  /\ schedule # Undef
  /\ today = Date(DaysFromCivil(2025, 1, 1) * HoursPerDay, "America/New_York")
  /\ schedule.v.screening = DateText(2025, 1, 2)
  /\ schedule.v.eot = DateText(2025, 5, 6)

\* The milestone labels in their declared order
MilestoneOrder ==
  <<"Screening", "C1D1", "C1D8", "C1D15", "C2D1", "C2D8", "C2D15", "C3+ and beyond", "EOT">>

\* Position of a label in the declared order
MilestoneRank(label) == CHOOSE i \in 1..Len(MilestoneOrder) : MilestoneOrder[i] = label

\* C14: the visits array of every response is sorted in ascending order of
\* its date strings, and this order coincides with the declared milestone
\* order Screening, C1D1, C1D8, C1D15, C2D1, C2D8, C2D15, C3+, EOT.
C14_VisitsSortedByDate ==
  Done =>
    \A i \in 1..Len(response.body.visits), j \in 1..Len(response.body.visits) :
      i < j =>
        /\ NotLater(response.body.visits[i].date, response.body.visits[j].date)
        /\ response.body.visits[i].label \in {MilestoneOrder[n] : n \in 1..9}
        /\ response.body.visits[j].label \in {MilestoneOrder[n] : n \in 1..9}
        /\ MilestoneRank(response.body.visits[i].label)
             < MilestoneRank(response.body.visits[j].label)

\* A response with the visits of a schedule that runs over a year change
C14_Witness ==
  /\ Done
  /\ Len(response.body.visits) = 9
  /\ response.body.visits[1].date = DateText(2024, 12, 21)
  /\ response.body.visits[2].date = DateText(2024, 12, 28)
  /\ response.body.visits[3].date = DateText(2025, 1, 4)
  /\ response.body.visits[9].label = "EOT"

\* ------------------------------------------------------------------------
\* The page's reader of the CSV
\* ------------------------------------------------------------------------

\* One turn of the loop of parseCsv at position i; skip tells that the turn
\* before it has consumed this character as well (its i++).
parseCsvStep(text, st, i) ==
  LET char == text[i]
      next == IF i + 1 <= Len(text) THEN text[i + 1] ELSE "undefined"
  IN  IF st.skip THEN [st EXCEPT !.skip = FALSE]
      ELSE IF st.inQuotes
        THEN IF char = "\"" /\ next = "\""
               THEN [st EXCEPT !.cell = Append(@, "\""), !.skip = TRUE]
             ELSE IF char = "\"" THEN [st EXCEPT !.inQuotes = FALSE]
             ELSE [st EXCEPT !.cell = Append(@, char)]
      ELSE IF char = "\"" THEN [st EXCEPT !.inQuotes = TRUE]
      ELSE IF char = "," THEN [st EXCEPT !.current = Append(@, st.cell), !.cell = <<>>]
      ELSE IF char = "\n" \/ char = "\r"
        THEN [st EXCEPT !.rows = Append(@, Append(st.current, st.cell)),
                        !.current = <<>>,
                        !.cell = <<>>,
                        !.skip = (char = "\r" /\ next = "\n")]
      ELSE [st EXCEPT !.cell = Append(@, char)]

RECURSIVE parseCsvLoop(_, _, _, _)
\* The turns of the loop for the positions lo..hi, in order, from the state
\* st that the turns before lo have left (the test of st.rows has it worked
\* out before the turns that follow).
parseCsvLoop(text, st, lo, hi) ==
  IF lo > hi \/ Len(st.rows) < 0 THEN st
  ELSE IF lo = hi THEN parseCsvStep(text, st, lo)
  ELSE parseCsvLoop(text, parseCsvLoop(text, st, lo, (lo + hi) \div 2),
                    (lo + hi) \div 2 + 1, hi)

\* parseCsv(text): the rows of cells of a CSV text
parseCsv(text) ==
  IF Len(text) = 0 THEN <<>>
  ELSE LET st == parseCsvLoop(text,
                              [rows |-> <<>>, current |-> <<>>, cell |-> <<>>,
                               inQuotes |-> FALSE, skip |-> FALSE],
                              1, Len(text))
       IN  IF Len(st.cell) > 0 \/ st.inQuotes \/ Len(st.current) > 0
             THEN Append(st.rows, Append(st.current, st.cell))
             ELSE st.rows

\* C15: parsing the standard CSV of a list of SoeRows yields, after the
\* header row, exactly one row per SoeRow, whose 12 cells equal the original
\* field values in header order - also for values with commas, double
\* quotes or newlines.
C15_CsvRoundTrip ==
  AggregatedSoeRows =>
    LET rows == response.body.tableData.v
        parsed == parseCsv(response.body.csv.v)
    IN  /\ Len(parsed) = 1 + Len(rows)
        /\ parsed[1] = [k \in 1..12 |-> Chars(SOE_HEADERS[k])]
        /\ \A n \in 1..Len(rows) :
             parsed[n + 1] = [k \in 1..12 |-> rows[n].v[SOE_HEADERS[k]].v]

\* The response carries the CSV of a row whose label has a comma and a
\* quote and whose follow-up cell has a quote and a newline.
C15_Witness ==
  /\ AggregatedSoeRows
  /\ \E n \in 1..Len(response.body.tableData.v) :
       /\ response.body.tableData.v[n].v["row_label"] = Str(<<"a", ",", "\"", "b">>)
       /\ response.body.tableData.v[n].v["follow_up_every_12_weeks_up_to_3_years_from_eot"]
            = Str(<<"\"", "\n">>)
  /\ Len(parseCsv(response.body.csv.v)) = 1 + Len(response.body.tableData.v)

\* C16: every element of tableData in every response is a record with
\* exactly the 12 keys of SOE_HEADERS, each holding a string, and no other
\* key, whatever text the normalization call returned.
C16_TableDataRowsAreSoeRows ==
  (Done /\ response.body.tableData.t = "array") =>
    \A n \in 1..Len(response.body.tableData.v) : IsSoeRow(response.body.tableData.v[n])

\* The response carries nothing of the normalization stage
NoNormalizationOutput ==
  /\ response.body.tableData = Undef
  /\ response.body.visits = <<>>
  /\ response.body.csv = Undef
  /\ response.body.csv_display = Undef
  /\ response.status = 200

\* C17: whenever the normalization stage fails (the call fails, its text is
\* missing or no string, the text does not parse, or the parsed value cannot
\* be rendered as rows) the response has no tableData, empty visits, no csv
\* and no csv_display, and success status.
C17_NormalizationFailureContributesNothing ==
  (Done /\ failed["json"] # Undef) => NoNormalizationOutput

\* The same, for the failures ahead of the rendering
C17_FailureAheadOfRendering ==
  (Done /\ failed["json"] # Undef
        /\ failed["json"] # Msg("TypeError: rows.map is not a function"))
    => NoNormalizationOutput

\* A cell between double quotes, its own double quotes doubled
QuotedCell(cell) == <<"\"">> \o DoubleQuotes(cell) \o <<"\"">>

\* A line of cells, each between quotes
QuotedLine(cells) == JoinWith([i \in 1..Len(cells) |-> QuotedCell(cells[i])], <<",">>)

\* A line of cells as they are
BareLine(cells) == JoinWith(cells, <<",">>)

\* The text of lines of cells, every cell of every line between quotes
AllLinesQuoted(parsed) ==
  JoinWith([n \in 1..Len(parsed) |-> QuotedLine(parsed[n])], <<"\n">>)

\* The text of lines of cells, the first line bare and every cell of every
\* later line between quotes
LinesBelowHeaderQuoted(parsed) ==
  JoinWith(<<BareLine(parsed[1])>> \o
             [n \in 1..(Len(parsed) - 1) |-> QuotedLine(parsed[n + 1])],
           <<"\n">>)

\* The response carries both CSV texts
BothCsvReturned == Done /\ response.body.csv # Undef /\ response.body.csv_display # Undef

\* C18 as stated: both renderers wrap every field of every line they emit -
\* header line, dates row and data rows - in double quotes and double every
\* embedded double quote.
C18_EveryLineQuoted ==
  BothCsvReturned =>
    /\ response.body.csv.v = AllLinesQuoted(parseCsv(response.body.csv.v))
    /\ response.body.csv_display.v = AllLinesQuoted(parseCsv(response.body.csv_display.v))

\* C18, amended: both renderers wrap every field of the dates row and of
\* every data row in double quotes and double every embedded double quote;
\* the header line is the bare names joined by commas.
C18_LinesBelowHeaderQuoted ==
  BothCsvReturned =>
    LET std == parseCsv(response.body.csv.v)
        disp == parseCsv(response.body.csv_display.v)
    IN  /\ Len(std) = 1 + Len(response.body.tableData.v)
        /\ Len(disp) = 2 + Len(response.body.tableData.v)
        /\ std[1] = [k \in 1..12 |-> Chars(SOE_HEADERS[k])]
        /\ response.body.csv.v = LinesBelowHeaderQuoted(std)
        /\ response.body.csv_display.v = LinesBelowHeaderQuoted(disp)

\* Both texts were returned for a table with a row whose label holds a
\* comma and a double quote.
C18_Witness ==
  /\ BothCsvReturned
  /\ \E n \in 1..Len(response.body.tableData.v) :
       Get(response.body.tableData.v[n], "row_label") = Str(<<"a", ",", "\"", "b">>)
  /\ \E n \in 1..Len(response.body.tableData.v) :
       Get(response.body.tableData.v[n], "row_label") = Str(<<"J">>)

\* The lines of cells of the display CSV of the response
DisplayLines == parseCsv(response.body.csv_display.v)

\* Column of the display header that carries the name of a key
DisplayColumn(header, key) == CHOOSE i \in 1..Len(header) : header[i] = Chars(key)

\* What C19 says of the display CSV apart from the number of columns: the
\* first header cell is a human label, the other header cells are distinct
\* SoeRow keys without the follow-up key, the cycle-1 milestones (day 1, 8,
\* 15) are contiguous and before the contiguous cycle-2 milestones, and every
\* line has as many cells as the header.
DisplayColumnsAsSelected(lines) ==
  LET header == lines[1]
      c1 == DisplayColumn(header, "treatment_period_cycle_1_day_1")
      c2 == DisplayColumn(header, "treatment_period_cycle_2_day_1")
  IN  /\ header[1] = Chars("Trial Task")
      /\ \A k \in SoeKeys : header[1] # Chars(k)
      /\ \A i \in 2..Len(header) :
           \E k \in SoeKeys \ {"row_label", "follow_up_every_12_weeks_up_to_3_years_from_eot"} :
             header[i] = Chars(k)
      /\ \A i \in 1..Len(header), j \in 1..Len(header) : header[i] = header[j] => i = j
      /\ \A k \in {"treatment_period_cycle_1_day_1", "treatment_period_cycle_1_day_8",
                   "treatment_period_cycle_1_day_15", "treatment_period_cycle_2_day_1",
                   "treatment_period_cycle_2_day_8", "treatment_period_cycle_2_day_15"} :
           \E i \in 1..Len(header) : header[i] = Chars(k)
      /\ DisplayColumn(header, "treatment_period_cycle_1_day_8") = c1 + 1
      /\ DisplayColumn(header, "treatment_period_cycle_1_day_15") = c1 + 2
      /\ DisplayColumn(header, "treatment_period_cycle_2_day_8") = c2 + 1
      /\ DisplayColumn(header, "treatment_period_cycle_2_day_15") = c2 + 2
      /\ c1 + 2 < c2
      /\ \A n \in 1..Len(lines) : Len(lines[n]) = Len(header)

\* C19 as stated: the display CSV has exactly 10 columns, a reordered subset
\* of the SoeRow keys without the follow-up field, cycle-1 milestones
\* contiguous before the cycle-2 milestones, a human label as first header
\* cell, and every data line as long as the header.
C19_DisplayHasTenColumns ==
  BothCsvReturned =>
    /\ Len(DisplayLines[1]) = 10
    /\ DisplayColumnsAsSelected(DisplayLines)

\* C19, amended: the same with exactly 11 columns - the label column and
\* the 10 SoeRow keys other than row_label and the follow-up field.
C19_DisplayHasElevenColumns ==
  BothCsvReturned =>
    /\ Len(DisplayLines[1]) = 11
    /\ DisplayColumnsAsSelected(DisplayLines)

\* A display CSV was returned for two rows, one of them with a follow-up
\* cell that is not empty.
C19_Witness ==
  /\ BothCsvReturned
  /\ Len(response.body.tableData.v) = 2
  /\ Get(response.body.tableData.v[2], "follow_up_every_12_weeks_up_to_3_years_from_eot")
       = Str(<<"\"", "\n">>)
  /\ Len(DisplayLines) = 4

\* The SoeRow key of a column of the display header: row_label for the
\* column of the human label
DisplayKey(header, i) ==
  IF i = 1 THEN "row_label" ELSE CHOOSE k \in SoeKeys : header[i] = Chars(k)

\* C20: the second line of the display CSV is a synthetic row whose first
\* cell is "dates" and whose cell under each milestone column of the header
\* is the ScheduleDates value of that milestone, the cell under
\* protocol_section being empty; it has as many cells as the header line,
\* and the data rows follow it in input order.
C20_DisplayDatesRow ==
  BothCsvReturned =>
    LET lines == DisplayLines
        header == lines[1]
        dates == lines[2]
        rows == response.body.tableData.v
    IN  /\ Len(lines) = 2 + Len(rows)
        /\ Len(dates) = Len(header)
        /\ dates[1] = Chars("dates")
        /\ \A i \in 2..Len(header) :
             /\ DisplayKey(header, i) \in DOMAIN schedule.v
             /\ dates[i] = schedule.v[DisplayKey(header, i)]
        /\ dates[DisplayColumn(header, "protocol_section")] = <<>>
        /\ \A m \in 1..9 :
             dates[DisplayColumn(header, MilestoneKeys[m])]
               = computeScheduleDates(today)[MilestoneKeys[m]]
        /\ \A n \in 1..Len(rows), i \in 1..Len(header) :
             lines[n + 2][i]
               = ToStr(Coalesce(Get(rows[n], DisplayKey(header, i)), Str(<<>>)))

\* A display CSV was returned for the rows B and A, in this order, with the
\* dates of the anchor 2025-01-01 on a host in UTC.
C20_Witness ==
  /\ BothCsvReturned
  /\ today = Date(DaysFromCivil(2025, 1, 1) * HoursPerDay, "UTC")
  /\ Len(response.body.tableData.v) = 2
  /\ Get(response.body.tableData.v[1], "row_label") = Str(<<"B">>)
  /\ Get(response.body.tableData.v[2], "row_label") = Str(<<"A">>)
  /\ DisplayLines[2][3] = DateText(2025, 1, 2)
  /\ DisplayLines[2][11] = DateText(2025, 5, 7)
  /\ DisplayLines[3][1] = <<"B">>

\* The form carries the field of a flag
FormCarries(key) == formData[key] # Null

\* The action has read its flags and gone on
FlagsRead == pc # "start"

\* C21: the query acts as default: for each flag the effective value is the
\* form field's value when the form carries that field, and the query
\* parameter's value only when the form does not carry it - so a form value
\* other than "1" disables a flag that the query sets to "1".
C21_FormOverridesQuery ==
  FlagsRead =>
    \A key \in FlagNames :
      flags[key] = IF FormCarries(key) THEN formData[key] = Str(<<"1">>)
                   ELSE searchParams[key] = Str(<<"1">>)

\* What the action does instead: a flag is set when either source gives
\* "1", and a stage whose flag only the query sets runs although the form
\* carries "0" for it
C21_EitherSourceSets ==
  FlagsRead =>
    \A key \in FlagNames :
      flags[key] = (formData[key] = Str(<<"1">>) \/ searchParams[key] = Str(<<"1">>))

\* The external calls in the order of the stages
CallOrder ==
  << [stage |-> "upload", op |-> "store"],
     [stage |-> "detect", op |-> "infer"],
     [stage |-> "reduce", op |-> "store"],
     [stage |-> "tsv", op |-> "infer"],
     [stage |-> "json", op |-> "infer"] >>

\* Position of a call in that order
CallRank(c) ==
  CHOOSE n \in 1..Len(CallOrder) :
    CallOrder[n].stage = c.stage /\ CallOrder[n].op = c.op

\* The stage whose block the action is in or at the start of, as a position
\* in the order of the stages; past all of them once it responds
StageReached ==
  CASE pc = "start" -> 0
    [] pc = "upload" -> 1
    [] pc = "detect" -> 2
    [] pc = "reduce" -> 3
    [] pc = "tsv" -> 4
    [] pc = "json" -> 5
    [] pc \in {"respond", "done"} -> 6

\* C22: the external calls of a request are issued one at a time in the
\* order store(original), detection, store(reduced), extraction,
\* normalization: every call sent belongs to a stage the action has left
\* behind, a later call in the log is of a later stage, and csv,
\* csv_display and visits exist only once the normalization call returned.
C22_StagesStrictlyLinear ==
  /\ \A i \in 1..Len(calls) :
       /\ \E n \in 1..Len(CallOrder) :
            CallOrder[n].stage = calls[i].stage /\ CallOrder[n].op = calls[i].op
       /\ CallRank(calls[i]) < StageReached
  /\ \A i \in 1..Len(calls), j \in 1..Len(calls) :
       i < j => CallRank(calls[i]) < CallRank(calls[j])
  /\ (csv # Undef \/ csvDisplay # Undef \/ visits # <<>>) =>
       /\ Len(calls) > 0
       /\ calls[Len(calls)].stage = "json"
       /\ StageReached > 5

\* All five calls were sent and the action returned.
C22_Witness ==
  /\ Done
  /\ Len(calls) = 5
  /\ response.body.csv # Undef
  /\ Len(response.body.visits) = 9

\* The calls of a stage in the log
CallsOf(stage) == {i \in 1..Len(calls) : calls[i].stage = stage}

\* The calls of a kind in the log
CallsTo(op) == {i \in 1..Len(calls) : calls[i].op = op}

\* C23: no retries: whatever fails, each stage issues its external call at
\* most once - at most 2 store calls (original, reduced) and 3 inference
\* calls (detection, extraction, normalization) in a request - and a failed
\* call is never issued again.
C23_NoRetries ==
  /\ \A s \in Stages : Cardinality(CallsOf(s)) <= 1
  /\ Cardinality(CallsTo("store")) <= 2
  /\ Cardinality(CallsTo("infer")) <= 3
  /\ Cardinality({i \in CallsTo("store") : calls[i].file = "original"}) <= 1
  /\ Cardinality({i \in CallsTo("store") : calls[i].file = "soe_only.pdf"}) <= 1
  /\ \A s \in Stages : failed[s] # Undef => Cardinality(CallsOf(s)) <= 1

\* Detection and extraction both failed, each after its one call, and the
\* action returned.
C23_Witness ==
  /\ Done
  /\ failed["detect"] # Undef
  /\ failed["tsv"] # Undef
  /\ Cardinality(CallsOf("detect")) = 1
  /\ Cardinality(CallsOf("tsv")) = 1

\* The references the store calls of this request returned so far
ReturnedReferences == {r \in {fileId, soeFileId} : Truthy(r)}

\* C24: whenever extraction is attempted, its inference call carries the
\* reduced reference (soeFileId) if reduction produced one in this request
\* and otherwise the original reference (fileId); it is never issued with a
\* reference that no store call of this request returned.
C24_ExtractionPrefersReducedFile ==
  \A i \in CallsOf("tsv") :
    /\ calls[i].ref = IF Truthy(soeFileId) THEN soeFileId ELSE fileId
    /\ calls[i].ref \in ReturnedReferences
    /\ \E j \in 1..(i - 1) :
         /\ calls[j].op = "store"
         /\ calls[j].stage = IF calls[i].ref = soeFileId THEN "reduce" ELSE "upload"
    /\ fileId # Undef => fileId = Str(<<"f", "1">>)
    /\ soeFileId # Undef => soeFileId = Str(<<"f", "2">>)

\* Extraction was called with the reference of the reduced file, the second
\* the store gave out, and the action returned.
C24_Witness ==
  /\ Done
  /\ soeFileId = Str(<<"f", "2">>)
  /\ \E i \in CallsOf("tsv") : calls[i].ref = Str(<<"f", "2">>)

\* ------------------------------------------------------------------------
\* C25: what the Page Selector makes of the response text
\* ------------------------------------------------------------------------

\* The detection block has just been left, and its inference call answered
\* with a body whose primary text is a non-empty string.
DetectionRead ==
  /\ pc = StageAfter("detect")
  /\ inferred # Undef
  /\ inferred.ok
  /\ ~NoText(primaryText(inferred.data))

\* The text the Page Selector received
DetectionText == primaryText(inferred.data).v

\* The first brace-delimited object of a text: from its first "{" to the
\* first "}" after it (no text of the model nests braces); <<>> if none.
FirstBraceObject(text) ==
  LET opens == {i \in 1..Len(text) : text[i] = "{"}
  IN  IF opens = {} THEN <<>>
      ELSE LET first == CHOOSE i \in opens : \A k \in opens : i <= k
               after == {j \in (first + 1)..Len(text) : text[j] = "}"}
           IN  IF after = {} THEN <<>>
               ELSE SubSeq(text, first, CHOOSE j \in after : \A k \in after : j <= k)

\* The list of {"pdf_indices":[1,3]}
ListedPages == Arr(<<Num(1), Num(3)>>)

\* C25: for every response text whose first brace-delimited JSON object is
\* {"pdf_indices": L} with L a non-empty list, whatever prose or further
\* braces precede or follow it, detection succeeds and returns exactly L.
C25_FirstObjectDecides ==
  (DetectionRead /\ FirstBraceObject(DetectionText) = <<"{", "I", "}">>) =>
    /\ failed["detect"] = Undef
    /\ pdfIndices = ListedPages

\* What the code guarantees: a text that is the object itself, or the object
\* between prose without braces, yields its list; and detection that yields
\* a list yields a non-empty one and keeps the text, while detection that
\* fails leaves no list and sets detectError.
C25_LoneObjectDecides ==
  DetectionRead =>
    /\ (/\ FirstBraceObject(DetectionText) = <<"{", "I", "}">>
        /\ Cardinality({i \in 1..Len(DetectionText) : DetectionText[i] = "}"}) = 1)
         => (failed["detect"] = Undef /\ pdfIndices = ListedPages)
    /\ failed["detect"] = Undef =>
         (pdfIndices.t = "array" /\ Len(pdfIndices.v) > 0 /\ detectRaw.v = DetectionText)
    /\ failed["detect"] # Undef =>
         (pdfIndices = Undef /\ detectError = failed["detect"])

\* The object stood between prose and detection returned its list.
C25_Witness ==
  /\ DetectionRead
  /\ DetectionText = <<"x", " ", "{", "I", "}", " ", "x">>
  /\ pdfIndices = ListedPages

\* ------------------------------------------------------------------------
\* C26: where the inference stages take the primary text from
\* ------------------------------------------------------------------------

\* A location of the response body holds text: a non-empty string
HoldsText(x) == x.t = "string" /\ Len(x.v) > 0

\* The detection block has just been left, and its inference call got a
\* response body
DetectionAnswered == pc = StageAfter("detect") /\ inferred # Undef /\ inferred.ok

\* The failures a stage raises for a body without text
NoTextErrors ==
  { Msg("Error: Missing text output from Responses API."),
    Msg("Error: TSV extraction failed."),
    Msg("Error: JSON conversion failed.") }

\* C26: each inference stage uses output[0].content[0].text when it holds a
\* non-empty string and otherwise falls back to output_text when that holds
\* a non-empty string; the stage fails for want of text only when neither
\* location holds text.  Stated of the detection stage, which reads the
\* text with the expression the other two use.
C26_FallsBackToOutputText ==
  DetectionAnswered =>
    LET at == inferred.data
        used == IF HoldsText(at.structured) THEN at.structured ELSE at.flat
    IN  /\ (HoldsText(at.structured) \/ HoldsText(at.flat))
             => failed["detect"] \notin NoTextErrors
        /\ failed["detect"] = Undef => detectRaw = used

\* ------------------------------------------------------------------------
\* C27: the derived outputs of one response go together
\* ------------------------------------------------------------------------

\* A field of the response body is present: the serialized body has the key
\* and its value is not null
InBody(field) == response.body[field].t \notin {"undefined", "null"}

\* C27: in every response csv is present exactly when csv_display is present
\* and exactly when tableData is present, and visits is non-empty only when
\* all three are present; no response has tableData present but csv absent.
C27_DerivedOutputsTogether ==
  Done =>
    /\ InBody("csv") <=> InBody("csv_display")
    /\ InBody("csv") <=> InBody("tableData")
    /\ Len(response.body.visits) > 0
         => (InBody("csv") /\ InBody("csv_display") /\ InBody("tableData"))

\* The part that holds: csv and csv_display go together, both need
\* tableData, and visits need all three.
C27_RenderedOutputsTogether ==
  Done =>
    /\ InBody("csv") <=> InBody("csv_display")
    /\ InBody("csv") => InBody("tableData")
    /\ Len(response.body.visits) > 0
         => (InBody("csv") /\ InBody("csv_display") /\ InBody("tableData"))

\* ------------------------------------------------------------------------
\* C28: what the optional fields of one response imply about each other
\* ------------------------------------------------------------------------

\* The response has a non-empty list of page indices
IndicesInBody == InBody("pdfIndices") /\ Len(response.body.pdfIndices.v) > 0

\* The implications that do not involve the preview of the reduced file
FieldsImplyEarlierStages ==
  /\ InBody("pdfIndices")
       => (IndicesInBody /\ InBody("fileId") /\ InBody("detectRaw"))
  /\ InBody("soeFileId") => IndicesInBody
  /\ InBody("tsv") => InBody("fileId")
  /\ InBody("tableData") => InBody("tsv")

\* C28: in every response, pdfIndices present implies it is non-empty and
\* fileId and detectRaw are present; soeFileId present implies pdfIndices
\* present and non-empty; soePdfBase64 or soeFileName present implies
\* soeFileId present; tsv present implies fileId present; tableData present
\* implies tsv present.
C28_FieldsImplyTheirSources ==
  Done =>
    /\ FieldsImplyEarlierStages
    /\ (InBody("soePdfBase64") \/ InBody("soeFileName")) => InBody("soeFileId")

\* The part that holds: the preview implies the page indices it was built
\* from, and its two fields go together.
C28_FieldsImplyEarlierStages ==
  Done =>
    /\ FieldsImplyEarlierStages
    /\ (InBody("soePdfBase64") \/ InBody("soeFileName")) => IndicesInBody
    /\ InBody("soePdfBase64") <=> InBody("soeFileName")

\* The reduced file was built and encoded for the preview, its registration
\* failed, and the response carries the preview without soeFileId.
C28_Witness ==
  /\ Done
  /\ InBody("soePdfBase64")
  /\ InBody("soeFileName")
  /\ IndicesInBody
  /\ ~InBody("soeFileId")
  /\ failed["reduce"] # Undef

\* ------------------------------------------------------------------------
\* Calendar routes: the Cookie header
\* ------------------------------------------------------------------------

\* A Cookie header is a sequence of symbols: the composite symbols
\* "gcal_oauth=", "gcal_refresh=" and "gcal_access=" (these characters in a
\* row), ";" and " ", "x" (a character of some other cookie name), and
\* symbols of cookie values, none of which holds ";" or one of the three
\* names.

\* /<key>([^;]+)/.exec(cookie): the capture of the leftmost match, the
\* symbols after the first occurrence of the key that is followed by a
\* symbol other than ";", up to the next ";"; <<>> stands for no match.
RegexCapture(cookie, key) ==
  LET hits == {i \in 1..(Len(cookie) - 1) : cookie[i] = key /\ cookie[i + 1] # ";"}
  IN  IF hits = {} THEN <<>>
      ELSE LET first == CHOOSE i \in hits : \A j \in hits : i <= j
               stops == {j \in (first + 1)..Len(cookie) : cookie[j] = ";"}
               last == IF stops = {} THEN Len(cookie)
                       ELSE (CHOOSE j \in stops : \A n \in stops : j <= n) - 1
           IN  SubSeq(cookie, first + 1, last)

\* ------------------------------------------------------------------------
\* Free/busy route (src/unnamed/part_002)
\* ------------------------------------------------------------------------

\* Most runs of the loop body a request is followed for.  The widest window
\* of the model (the defaults, 09:00 to 17:00) holds 16 slots of the
\* shortest positive length (30 minutes): a loop that is still running
\* after MaxIterations runs of its body has left every window behind.
MaxIterations == 18

\* The number that is no number
NaN == [t |-> "NaN"]

\* The least number of a non-empty set
Min(S) == CHOOSE a \in S : \A b \in S : a <= b

\* The positions of a separator in a text
SepAt(s, sep) == {i \in 1..Len(s) : s[i] = sep}

\* clock.split(":")[n], for n = 1 or 2: the text ahead of the first ":",
\* and the text between the first ":" and the second (Undef if there is no
\* ":")
SplitPart(s, n) ==
  IF n = 1
    THEN Str(SubSeq(s, 1, Min(SepAt(s, ":") \cup {Len(s) + 1}) - 1))
  ELSE IF SepAt(s, ":") = {} THEN Undef
  ELSE Str(SubSeq(s, Min(SepAt(s, ":")) + 1,
                  Min((SepAt(s, ":") \ {Min(SepAt(s, ":"))}) \cup {Len(s) + 1}) - 1))

DigitChars == {"0", "1", "2", "3", "4", "5", "6", "7", "8", "9"}

DigitValue(c) == CHOOSE d \in 0..9 : Digit(d) = c

RECURSIVE DigitsValue(_, _)
\* The number the first n characters of s, all digits, write
DigitsValue(s, n) ==
  IF n = 0 THEN 0 ELSE DigitsValue(s, n - 1) * 10 + DigitValue(s[n])

\* How many digits a text starts with
LeadingDigits(s) == Min({i \in 1..Len(s) : s[i] \notin DigitChars} \cup {Len(s) + 1}) - 1

\* parseInt(x, 10) of a text without blanks or sign: the number its leading
\* digits write, NaN if it starts with no digit; NaN for undefined
parseInt(x) ==
  IF x = Undef \/ LeadingDigits(x.v) = 0 THEN NaN
  ELSE Num(DigitsValue(x.v, LeadingDigits(x.v)))

\* The only date of the model that is a calendar date
ADate == <<"2", "0", "2", "5", "-", "0", "1", "-", "0", "1">>

\* new Date(`${date}T${hh}:${mm}:00Z`).getTime() for hh and mm the texts
\* String(h).padStart(2, "0") and String(m).padStart(2, "0"), in minutes
\* from the midnight (UTC) of ADate: NaN unless date is a calendar date and
\* h and m are numbers that write a time of day in two digits each (24:00
\* included).
ClockTime(date, h, m) ==
  IF /\ date = ADate
     /\ h # NaN /\ m # NaN
     /\ m.v <= 59
     /\ (h.v <= 23 \/ (h.v = 24 /\ m.v = 0))
    THEN Num(h.v * 60 + m.v)
  ELSE NaN

\* const [h, m] = clock.split(":").map(n => parseInt(n, 10)); new Date(...)
WindowEdge(date, clock) ==
  ClockTime(date, parseInt(SplitPart(clock, 1)), parseInt(SplitPart(clock, 2)))

\* The destructuring defaults: workStart = "09:00", workEnd = "17:00",
\* slotMinutes = 30 where the body leaves them undefined
workStart == IF calReq.workStart = Undef THEN <<"0", "9", ":", "0", "0">>
             ELSE calReq.workStart.v

workEnd == IF calReq.workEnd = Undef THEN <<"1", "7", ":", "0", "0">>
           ELSE calReq.workEnd.v

slotMinutes == IF calReq.slotMinutes = Undef THEN Num(30) ELSE calReq.slotMinutes

\* slotMinutes * 60 * 1000, in minutes; null counts as 0
StepOf(minutes) == IF minutes = Null THEN 0 ELSE minutes.v

\* t + stepMs <= dayEnd: false when either side is NaN
SlotFits == slotT # NaN /\ dayEnd # NaN /\ slotT.v + stepMs <= dayEnd.v

\* Math.max, Math.min
MathMax(a, b) == IF a >= b THEN a ELSE b

MathMin(a, b) == IF a <= b THEN a ELSE b

\* busy.some(b => Math.max(slotStart, bStart) < Math.min(slotEnd, bEnd))
overlaps(slotStart, slotEnd) ==
  \E i \in 1..Len(busy) :
    MathMax(slotStart, busy[i].start) < MathMin(slotEnd, busy[i].end)

\* `${hh}:${mm}` of getUTCHours and getUTCMinutes of an instant
SlotLabel(time) ==
  PadStart(Digits((time % 1440) \div 60), 2) \o <<":">> \o PadStart(Digits(time % 60), 2)

\* The variables of the process-soe route
pipeline == <<pc, inputs, locals, today, inferred, calls, failed, response>>

\* The process-soe route is handling nothing
PipelineIdle ==
  /\ file = Undef
  /\ searchParams = [key \in FlagNames |-> Null]
  /\ formData = [key \in FlagNames |-> Null]
  /\ flags = parseRunFlags(searchParams, formData)
  /\ apiKey = Undef
  /\ InitLocals

\* json(body, {status}) of a calendar route; cookies are the Set-Cookie
\* headers of the response
CalJson(status, body) == [status |-> status, body |-> body, cookies |-> <<>>]

CalError(status, text) == CalJson(status, [error |-> text])

\* Replies of the token endpoint to a refresh: not ok, or ok with a body
\* that has an access_token or has none
RefreshReplies ==
  { [ok |-> FALSE, access_token |-> Undef],
    [ok |-> TRUE, access_token |-> Str(<<"A2">>)],
    [ok |-> TRUE, access_token |-> Undef] }

\* Busy intervals as Date.parse reads them, in minutes from the midnight of
\* ADate: none, one in the morning, one that starts inside a slot and one
\* that covers the end of the day.
BusyLists ==
  { <<>>,
    <<[start |-> 600, end |-> 630]>>,
    <<[start |-> 555, end |-> 585], [start |-> 960, end |-> 1080]>> }

\* Replies of the freeBusy endpoint: not ok, ok without calendars, or ok
\* with a busy list
FreeBusyReplies ==
  {[ok |-> FALSE, busy |-> Undef], [ok |-> TRUE, busy |-> Undef]}
    \cup {[ok |-> TRUE, busy |-> Arr(b)] : b \in BusyLists}

\* refreshAccessToken(refreshToken, clientId, clientSecret)
refreshAccessToken(reply) ==
  IF ~reply.ok THEN Thrown("Error: refresh failed: 500")
  ELSE Returned(reply.access_token)

\* The checks and the two requests ahead of the slot loop: what the action
\* returns there (Undef if it goes on to the loop), what it has sent, and
\* the busy list it goes on with.
FreeBusyPrologue(req, refreshReply, fbReply) ==
  LET mRefresh == RegexCapture(req.cookie, "gcal_refresh=")
      mAccess == RegexCapture(req.cookie, "gcal_access=")
      refreshes == Len(mAccess) = 0 /\ Len(mRefresh) > 0
      refreshed == refreshAccessToken(refreshReply)
      accessToken == IF refreshes THEN refreshed.value
                     ELSE IF Len(mAccess) > 0 THEN Str(mAccess) ELSE Undef
      stop(resp, sent) == [returned |-> resp, sent |-> sent, busy |-> <<>>]
  IN  IF ~Truthy(req.date) THEN stop(CalError(400, "Missing date"), <<>>)
      ELSE IF Len(mRefresh) = 0 /\ Len(mAccess) = 0
        THEN stop(CalError(401, "Not connected"), <<>>)
      ELSE IF ~Truthy(req.clientId) \/ ~Truthy(req.clientSecret)
        THEN stop(CalError(500, "Missing Google credentials"), <<>>)
      ELSE IF refreshes /\ ~refreshed.ok
        THEN stop(CalError(502, refreshed.err.v), <<"token">>)
      ELSE IF ~Truthy(accessToken)
        THEN stop(CalError(401, "No access token"), <<"token">>)
      ELSE LET sent == (IF refreshes THEN <<"token">> ELSE <<>>) \o <<"freeBusy">>
           IN  IF ~fbReply.ok THEN stop(CalError(502, "freeBusy failed"), sent)
               ELSE [returned |-> Undef, sent |-> sent,
                     busy |-> IF fbReply.busy = Undef THEN <<>> ELSE fbReply.busy.v]

\* action, up to the slot loop (part_002:34-93)
FreeBusyChecks ==
  /\ calPc = "start"
  /\ calReq.route = "freebusy"
  /\ \E refreshReply \in RefreshReplies, fbReply \in FreeBusyReplies :
       LET got == FreeBusyPrologue(calReq, refreshReply, fbReply)
       IN  /\ calFetches' = got.sent
           /\ calResponse' = got.returned
           /\ busy' = got.busy
           /\ calPc' = IF got.returned = Undef THEN "loop" ELSE "done"
           /\ IF got.returned = Undef
                THEN /\ dayStart' = WindowEdge(calReq.date.v, workStart)
                     /\ dayEnd' = WindowEdge(calReq.date.v, workEnd)
                     /\ stepMs' = StepOf(slotMinutes)
                     /\ slotT' = dayStart'
                ELSE UNCHANGED <<dayStart, dayEnd, stepMs, slotT>>
  /\ UNCHANGED <<pipeline, calReq, slots, iterations>>

\* One run of the body of for (let t = dayStart; t + stepMs <= dayEnd;
\* t += stepMs), followed while it has run less than MaxIterations times
SlotLoop ==
  /\ calPc = "loop"
  /\ SlotFits
  /\ iterations < MaxIterations
  /\ slots' = IF overlaps(slotT.v, slotT.v + stepMs) THEN slots
              ELSE Append(slots, SlotLabel(slotT.v))
  /\ slotT' = Num(slotT.v + stepMs)
  /\ iterations' = iterations + 1
  /\ UNCHANGED <<pipeline, calReq, calPc, calFetches, calResponse, busy, dayStart, dayEnd,
                 stepMs>>

\* The loop ends: return json({ date, timeZone, slots })
SlotsReturn ==
  /\ calPc = "loop"
  /\ ~SlotFits
  /\ calResponse' = CalJson(200, [date |-> calReq.date, slots |-> slots])
  /\ calPc' = "done"
  /\ UNCHANGED <<pipeline, calReq, calFetches, busy, dayStart, dayEnd, stepMs, slotT, slots,
                 iterations>>

\* The requests of the free/busy route: the body fields present or not, a
\* window edge that is a time of day or none ("10" has no minutes), the
\* cookies of a connected or unconnected browser, the credentials
\* configured or not.
FreeBusyRequests ==
  [ route : {"freebusy"},
    date : {Undef, Str(ADate)},
    workStart : {Undef, Str(<<"1", "0", ":", "0", "0">>), Str(<<"9", ":", "5">>)},
    workEnd : {Undef, Str(<<"1", "1", ":", "3", "0">>), Str(<<"1", "0">>)},
    slotMinutes : {Undef, Null, Num(60), Num(45), Num(0), Num(0 - 60)},
    cookie : {<<>>, <<"gcal_access=", "A1">>, <<"x", "=", "1", ";", " ", "gcal_refresh=", "R1">>},
    clientId : {Str(<<"id">>)},
    clientSecret : {Undef, Str(<<"secret">>)} ]

InitFreeBusy ==
  /\ PipelineIdle
  /\ calReq \in FreeBusyRequests
  /\ calPc = "start"
  /\ calFetches = <<>>
  /\ calResponse = Undef
  /\ busy = <<>>
  /\ dayStart = Undef
  /\ dayEnd = Undef
  /\ stepMs = Undef
  /\ slotT = Undef
  /\ slots = <<>>
  /\ iterations = 0

NextFreeBusy == FreeBusyChecks \/ SlotLoop \/ SlotsReturn

\* The handler is run to its end: the runtime keeps executing the loop, and
\* the requests it awaits are answered.
SpecFreeBusy == InitFreeBusy /\ [][NextFreeBusy]_vars /\ WF_vars(NextFreeBusy)

\* ------------------------------------------------------------------------
\* C29: the slot loop of the free/busy route
\* ------------------------------------------------------------------------

\* The free/busy route answered with slots
SlotsReturned == calPc = "done" /\ calResponse.status = 200

\* Every slot returned starts a whole number of slot lengths after dayStart,
\* ends at or before dayEnd, and overlaps no busy interval.
SlotsWellPlaced ==
  \A n \in 1..Len(calResponse.body.slots) :
    \E m \in 0..MaxIterations :
      LET slotStart == dayStart.v + m * stepMs
          slotEnd == slotStart + stepMs
      IN  /\ calResponse.body.slots[n] = SlotLabel(slotStart)
          /\ slotEnd <= dayEnd.v
          /\ ~overlaps(slotStart, slotEnd)

\* C29: slot generation of the free/busy route terminates for every
\* slotMinutes, workStart and workEnd, slotMinutes <= 0 included - every
\* run of the loop body moves t forward, towards the dayEnd that bounds it,
\* so the body runs finitely often - and every slot returned starts at
\* dayStart + k * slotMinutes, ends at or before workEnd and overlaps no
\* busy interval.
C29_SlotLoopAdvances ==
  [][/\ SlotLoop => slotT'.v > slotT.v
     /\ SlotsReturned' => SlotsWellPlaced']_vars

\* Termination as a liveness property, the loop followed for MaxIterations
\* runs of its body: the request is answered.
C29_SlotGenerationTerminates == <>(calPc = "done")

\* What holds: the slots returned are well placed, and the loop of a
\* positive slot length stays within the slots its window holds.
C29_SlotsWellPlaced ==
  /\ SlotsReturned => SlotsWellPlaced
  /\ (calPc = "loop" /\ stepMs > 0) => iterations < MaxIterations - 1

\* The loop still runs after MaxIterations runs of its body, its slot
\* length not positive.
C29_LoopStillRunning ==
  /\ calPc = "loop"
  /\ SlotFits
  /\ iterations = MaxIterations
  /\ stepMs <= 0

\* What holds of termination: a request whose checks stop it, and a loop of
\* positive slot length, are answered.
C29_PositiveStepAnswered ==
  (calPc = "start" \/ (calPc = "loop" /\ stepMs > 0)) ~>
    (calPc = "done" \/ (calPc = "loop" /\ stepMs <= 0))

\* ------------------------------------------------------------------------
\* OAuth callback route (src/app/routes/auth.google.callback.tsx)
\* ------------------------------------------------------------------------

\* Symbols of cookie values of the callback: "vS" and "vT" stand for
\* encodeURIComponent(JSON.stringify({state, codeVerifier})) with the state
\* "s" and "t", "null" and "5" for these JSON texts, "%" for a malformed
\* escape and "x" for a text that is no JSON.

\* JSON.parse(decodeURIComponent(capture)): the value, or a throw
StoredOf(capture) ==
  IF capture = <<"vS">>
    THEN Returned(Obj([k \in {"state", "codeVerifier"} |->
                         IF k = "state" THEN Str(<<"s">>) ELSE Str(<<"v">>)]))
  ELSE IF capture = <<"vT">>
    THEN Returned(Obj([k \in {"state", "codeVerifier"} |->
                         IF k = "state" THEN Str(<<"t">>) ELSE Str(<<"v">>)]))
  ELSE IF capture = <<"null">> THEN Returned(Null)
  ELSE IF capture = <<"5">> THEN Returned(Num(5))
  ELSE IF \E i \in 1..Len(capture) : capture[i] = "%"
    THEN Thrown("URIError: URI malformed")
  ELSE Thrown("SyntaxError: Unexpected token in JSON")

\* A Set-Cookie header of the response: the cookie it sets, or clears
\* (Max-Age=0)
SetCookie(name, value) == [name |-> name, value |-> value]

ClearCookie(name) == [name |-> name, value |-> Undef]

\* redirect("/", { headers })
CalRedirect(cookies) == [status |-> 302, body |-> [location |-> "/"], cookies |-> cookies]

\* Replies of the token endpoint to the exchange: not ok, or ok with tokens
\* of which either may be missing
TokenReplies ==
  {[ok |-> FALSE, access_token |-> Undef, refresh_token |-> Undef]} \cup
  { [ok |-> TRUE, access_token |-> a, refresh_token |-> r] :
      a \in {Undef, Str(<<"A1">>)}, r \in {Undef, Str(<<"R1">>)} }

\* !stored || stored.state !== returnedState
StateMismatch(stored, returnedState) ==
  \/ ~Truthy(stored)
  \/ Get(stored, "state") # returnedState

\* loader: [returned, sent], the response and the requests sent to Google
loader(req, tokenReply) ==
  LET match == RegexCapture(req.cookie, "gcal_oauth=")
      stored == StoredOf(match)
      stop(resp) == [returned |-> resp, sent |-> <<>>]
  IN  IF ~Truthy(req.code) \/ ~Truthy(req.state)
        THEN stop(CalError(400, "Missing code/state"))
      ELSE IF Len(match) = 0 THEN stop(CalError(400, "Missing oauth cookie"))
      ELSE IF ~stored.ok THEN stop(CalError(400, "Invalid oauth cookie"))
      ELSE IF StateMismatch(stored.value, req.state)
        THEN stop(CalError(400, "State mismatch"))
      ELSE IF ~Truthy(req.clientId) \/ ~Truthy(req.clientSecret)
        THEN stop(CalError(500, "Missing Google credentials"))
      ELSE IF ~tokenReply.ok
        THEN [returned |-> CalError(502, "Token exchange failed"), sent |-> <<"token">>]
      ELSE [returned |->
              CalRedirect(
                <<ClearCookie("gcal_oauth")>>
                  \o (IF Truthy(tokenReply.access_token)
                        THEN <<SetCookie("gcal_access", tokenReply.access_token)>>
                        ELSE <<>>)
                  \o (IF Truthy(tokenReply.refresh_token)
                        THEN <<SetCookie("gcal_refresh", tokenReply.refresh_token)>>
                        ELSE <<>>)),
            sent |-> <<"token">>]

\* The loader of the callback route, from the request to the response
Callback ==
  /\ calPc = "start"
  /\ calReq.route = "callback"
  /\ \E tokenReply \in TokenReplies :
       LET got == loader(calReq, tokenReply)
       IN  /\ calFetches' = got.sent
           /\ calResponse' = got.returned
  /\ calPc' = "done"
  /\ UNCHANGED <<pipeline, calReq, busy, dayStart, dayEnd, stepMs, slotT, slots, iterations>>

\* The Cookie headers of the callback: none; the cookie the authorization
\* route set, alone or after another cookie; a cookie with the state of
\* another attempt, with a value that does not decode, that is no JSON, that
\* is null or a number, or with no value; and a cookie of another name that
\* ends in gcal_oauth, alone and ahead of the cookie itself.
CallbackCookies ==
  { <<>>,
    <<"gcal_oauth=", "vS">>,
    <<"x", "=", "1", ";", " ", "gcal_oauth=", "vS">>,
    <<"gcal_oauth=", "vT">>,
    <<"gcal_oauth=", "%">>,
    <<"gcal_oauth=", "x">>,
    <<"gcal_oauth=", "null">>,
    <<"gcal_oauth=", "5">>,
    <<"gcal_oauth=">>,
    <<"x", "gcal_oauth=", "vS">>,
    <<"x", "gcal_oauth=", "vS", ";", " ", "gcal_oauth=", "vT">> }

CallbackRequests ==
  [ route : {"callback"},
    code : {Null, Str(<<>>), Str(<<"c">>)},
    state : {Null, Str(<<"s">>)},
    cookie : CallbackCookies,
    clientId : {Undef, Str(<<"id">>)},
    clientSecret : {Undef, Str(<<"secret">>)} ]

InitCallback ==
  /\ PipelineIdle
  /\ calReq \in CallbackRequests
  /\ calPc = "start"
  /\ calFetches = <<>>
  /\ calResponse = Undef
  /\ busy = <<>>
  /\ dayStart = Undef
  /\ dayEnd = Undef
  /\ stepMs = Undef
  /\ slotT = Undef
  /\ slots = <<>>
  /\ iterations = 0

NextCallback == Callback

SpecCallback == InitCallback /\ [][NextCallback]_vars

\* ------------------------------------------------------------------------
\* C30: what the OAuth callback does ahead of the token exchange
\* ------------------------------------------------------------------------

\* The callback route has answered its request
CallbackAnswered == calPc = "done" /\ calReq.route = "callback"

\* The value of the cookie of a given name in a Cookie header: the symbols
\* after the name where it starts the header or follows "; ", up to the
\* next ";"; <<>> if the header has no such cookie or its value is empty.
CookieNamed(cookie, key) ==
  LET named == {i \in 1..Len(cookie) : cookie[i] = key /\ (i = 1 \/ cookie[i - 1] = " ")}
  IN  IF named = {} THEN <<>>
      ELSE LET first == Min(named)
               stops == {j \in (first + 1)..Len(cookie) : cookie[j] = ";"}
           IN  SubSeq(cookie, first + 1, Min(stops \cup {Len(cookie) + 1}) - 1)

\* The checks of the callback, made on a cookie value: code and state are
\* present, the value is there and parses, the state it stores is the
\* returned one, and both credentials are configured.
ChecksPassOn(value) ==
  /\ Truthy(calReq.code)
  /\ Truthy(calReq.state)
  /\ Len(value) > 0
  /\ StoredOf(value).ok
  /\ Truthy(StoredOf(value).value)
  /\ Get(StoredOf(value).value, "state") = calReq.state
  /\ Truthy(calReq.clientId)
  /\ Truthy(calReq.clientSecret)

TokenEndpointContacted == \E i \in 1..Len(calFetches) : calFetches[i] = "token"

TokenCookiesSet ==
  \E i \in 1..Len(calResponse.cookies) :
    /\ calResponse.cookies[i].name \in {"gcal_access", "gcal_refresh"}
    /\ calResponse.cookies[i].value # Undef

\* What the claim says of one answered request, the checks made on value
GuardedBy(value) ==
  /\ (TokenEndpointContacted \/ TokenCookiesSet) => ChecksPassOn(value)
  /\ ~ChecksPassOn(value) =>
       /\ calResponse.status \in {400, 500}
       /\ calResponse.status = 500
            => (~Truthy(calReq.clientId) \/ ~Truthy(calReq.clientSecret))
       /\ calFetches = <<>>
       /\ calResponse.cookies = <<>>
  /\ calResponse.status = 302 =>
       \E i \in 1..Len(calResponse.cookies) :
         calResponse.cookies[i] = ClearCookie("gcal_oauth")

\* C30: the callback issues the token exchange and sets the gcal_access and
\* gcal_refresh cookies only after code and state are present, the
\* gcal_oauth cookie is present and parses, the stored state equals the
\* returned state and both credentials are configured; on a failed check it
\* returns 400 (500 for missing credentials) without contacting the token
\* endpoint or setting cookies; on success it always clears gcal_oauth.
C30_ExchangeOnlyAfterChecks ==
  CallbackAnswered => GuardedBy(CookieNamed(calReq.cookie, "gcal_oauth="))

\* What holds: the same, the checks made on the leftmost place of the Cookie
\* header where the characters gcal_oauth= are followed by a value, whatever
\* cookie that is.
C30_ChecksOnLeftmostMatch ==
  CallbackAnswered => GuardedBy(RegexCapture(calReq.cookie, "gcal_oauth="))

\* The token endpoint was contacted for a request with no cookie named
\* gcal_oauth.
C30_ExchangedWithoutCookie ==
  /\ CallbackAnswered
  /\ TokenEndpointContacted
  /\ CookieNamed(calReq.cookie, "gcal_oauth=") = <<>>

====
